---------------------------- MODULE Spec2Model ----------------------------
(***************************************************************************)
(* A model of the solana-trade-tracker copy-trading core:                  *)
(*   - CopyTradeEngine.processTrade with JupiterExecutor.buyToken /        *)
(*     sellTokenForUsdcAmount and the PositionManager ledger   (SpecCopy)  *)
(*   - ExitManager's background check cycles                   (SpecExit)  *)
(*   - TradeFilter.shouldCopyTrade                             (SpecFilter)*)
(*   - TradeAnalyzer.analyzeTransaction                      (SpecAnalyzer)*)
(*                                                                         *)
(* The program runs on one event loop: code between two awaits runs to     *)
(* completion, so every action below is one such run (from an invocation   *)
(* or a resumed await up to the next await that really suspends).          *)
(*                                                                         *)
(* Units.  USDC amounts in UI units are counted in tenths of a USDC        *)
(* (tradeAmountUsdc = 2 is 20, minTradeUsdc = 0.1 is 1); raw USDC amounts  *)
(* are integers of the mint's smallest unit (6 decimals).  Prices are      *)
(* counted in PriceScale-ths of a tenth of a USDC; the code's floating     *)
(* point divisions are integer divisions at that scale.                    *)
(***************************************************************************)
EXTENDS Integers, Sequences, FiniteSets, TLC

(***************************************************************************)
(* Bounds of the model.                                                    *)
(***************************************************************************)
MaxInvocations == 2     \* processTrade invocations (SpecCopy)
MaxTicks == 1           \* clock advances per run
MaxPreBuilt == 2        \* pre-built transactions ever built
MaxBuilding == 1        \* concurrent background pre-builds per mint
MaxCycles == 2          \* ExitManager check cycles (SpecExit)
MaxExitTicks == 2       \* clock advances per run of SpecExit
MaxBuys == 1            \* buys recorded in the ledger per run of SpecExit
MaxOpens == 2           \* positions opened on a mint per run of SpecReopen
MaxFilterCalls == 2     \* shouldCopyTrade calls (SpecFilter)
MaxFilterTicks == 2     \* clock advances per run of SpecFilter
MaxPriceHistory == 2    \* entries of a token's price history
MaxAnalyses == 2        \* analyzeTransaction calls (SpecAnalyzer)
MaxAnalyzerTicks == 1    \* clock advances per run of SpecAnalyzer
MaxSubmits == 2         \* sends of a signed transaction (SpecSubmit)
MaxSlots == 2           \* slots of the shred stream (SpecEntries)
MaxEntries == 2         \* entries of a payload
MaxTxCount == 2         \* transactions an entry declares
MaxTokenBalances == 2   \* pre / post token balances of a transaction
MaxRecords == 4         \* trades recorded in the ledger (SpecLedger)
MaxQuoteCalls == 2      \* getQuoteWithCache calls (SpecQuote)
MaxQuoteTicks == 2      \* clock advances per run of SpecQuote
MaxStreams == 3         \* entry streams a ShredstreamClient opens (SpecStream)
MaxReconnectCap == 2    \* largest maxReconnectAttempts configured
MaxInstructions == 2    \* instructions of a classified transaction (SpecClassify)
MaxSubCalls == 4        \* SubscriptionManager calls (SpecSubs)
MaxMarketBuys == 2      \* buys recorded per mint (SpecPrice)
MaxPriceMoves == 1      \* changes of the market price (SpecPrice)
MaxTrailing == 2        \* bytes after a transaction in a measured buffer (SpecMeasure)

(***************************************************************************)
(* Program constants and the configuration the model runs with.            *)
(***************************************************************************)
QUOTE_CACHE_TTL == 5000
PREBUILT_TX_TTL == 45000
PREBUILT_REFRESH_MARGIN == 15000
UsdcRawPerTenth == 100000      \* 1_000_000 raw units per USDC, per tenth
PriceScale == 1000000
tradeAmountUsdc == 20          \* TRADE_AMOUNT_USDC=2
minTradeUsdc == 1              \* minTradeUsdc: 0.1
maxPositionSizeUsdc == 40      \* MAX_POSITION_SIZE_USDC=4
maxTotalExposureUsdc == 100    \* MAX_TOTAL_EXPOSURE_USDC=10
maxOpenPositions == 2          \* MAX_OPEN_POSITIONS=2
minUsdcReserve == 50           \* MIN_USDC_RESERVE=5
defaultMinUsdcReserve == 100   \* Min USDC reserve (default: $10)
checkIntervalSeconds == 30     \* EXIT_CHECK_INTERVAL_SECONDS
indexMaxReconnectAttempts == 10   \* maxReconnectAttempts: 10
METADATA_CACHE_TTL == 60000
PRICE_HISTORY_WINDOW == 300000
RPC_MIN_INTERVAL == 500        \* lookup-table RPC calls are 500 ms apart
OKX_PROGRAM_ID == "okx"
DFLOW_PROGRAM_ID == "dflow"
VOTE_PROGRAM_ID == "vote"
DISCRIMINATOR_BYTES == 8
OKX_SWAP_DISCRIMINATORS ==
  { <<248, 198, 158, 145, 225, 117, 135, 200>>,
    <<19, 44, 130, 148, 72, 56, 44, 238>>,
    <<30, 33, 208, 91, 31, 157, 37, 18>>,
    <<81, 128, 134, 73, 114, 73, 45, 94>>,
    <<96, 67, 12, 151, 129, 164, 18, 71>>,
    <<235, 71, 211, 196, 114, 199, 143, 92>>,
    <<69, 200, 254, 247, 40, 52, 118, 202>>,
    <<69, 164, 210, 89, 146, 214, 173, 67>>,
    <<240, 224, 38, 33, 176, 31, 241, 175>>,
    <<14, 191, 44, 246, 142, 225, 224, 157>>,
    <<236, 71, 155, 68, 198, 98, 14, 118>>,
    <<63, 114, 246, 131, 51, 2, 247, 29>> }
DFLOW_SWAP_DISCRIMINATORS ==
  { <<248, 198, 158, 145, 225, 117, 135, 200>>,
    <<168, 172, 24, 77, 197, 156, 135, 101>>,
    <<205, 77, 127, 108, 241, 32, 196, 195>>,
    <<65, 75, 63, 76, 235, 91, 91, 136>>,
    <<95, 123, 213, 246, 122, 1, 86, 231>>,
    <<222, 100, 184, 146, 186, 196, 105, 165>> }
MsPerHour == 3600000
JITO_MAX_RETRIES == 3
JITO_BASE_DELAY == 2000
U64_BYTES == 8
HASH_BYTES == 32

Mints == {"m1", "m2"}
USDC_MINT == "usdc"
Procs == 1 .. MaxInvocations

\* The trades TradeAnalyzer hands to the engine.  A signature determines its
\* trade, so two invocations with one signature carry the same trade.
Trades ==
  { [signature |-> "s1", direction |-> "buy",  tokenMint |-> "m1", usdcAmount |-> 50],
    [signature |-> "s2", direction |-> "sell", tokenMint |-> "m1", usdcAmount |-> 50],
    [signature |-> "s3", direction |-> "buy",  tokenMint |-> "m2", usdcAmount |-> 50],
    [signature |-> "s4", direction |-> "buy",  tokenMint |-> "m1", usdcAmount |-> 50],
    [signature |-> "s5", direction |-> "buy",  tokenMint |-> "m1", usdcAmount |-> 0] }
NoTrade == [signature |-> "none", direction |-> "buy", tokenMint |-> "m1", usdcAmount |-> 0]

\* Token quantities (raw units) the quote API answers with, the clock steps
\* (ms) and the USDC balances (tenths of a USDC) the wallet RPC answers with.
BuyTokenAmounts == {3000000}
SellTokenAmounts == {1500000, 3000000}
TickSteps == {45000}
QuoteCallers == 1 .. MaxQuoteCalls
QuoteTickSteps == {1000, 5000}
UsdcBalances == {60, 200}

\* ExitManager inputs: the tokens (raw units) a copied buy received, the
\* prices the price API answers with (0: no price for the mint; the others
\* are -40 %, 0 %, +50 %, +100 % and +300 % around the entry price of such a
\* buy), and the clock steps (one check interval, one maximum hold time).
ExitBuyTokenAmounts == {200000}
PriceAnswers == {0, 60, 100, 150, 200, 400}
ExitTickSteps == {30000, 86400000}
Cycles == 1 .. MaxCycles

\* TradeFilter inputs: the first pair DexScreener answers with (USD, seconds),
\* the outcomes of a request, the prices fed to updatePriceHistory and the
\* clock steps (the metadata TTL, the price history window).
DexPairs ==
  { [liquidity |-> 60000, volume24h |-> 20000, tokenAge |-> 7200, price |-> 100],
    [liquidity |-> 50,    volume24h |-> 20000, tokenAge |-> 7200, price |-> 100],
    [liquidity |-> 60000, volume24h |-> 20000, tokenAge |-> 600,  price |-> 100],
    [liquidity |-> 60000, volume24h |-> 5000,  tokenAge |-> 7200, price |-> 100] }
FetchOutcomes == {"ok", "not_found", "error"}
HistoryPrices == {200}
FilterTickSteps == {60000, 300000}
FilterCalls == 1 .. MaxFilterCalls

\* TradeAnalyzer inputs.  The decoded transactions: a legacy OKX swap signed
\* by A; a versioned DFlow swap with keys B, A whose program and a further
\* key C come from lookup table T1; a vote; a versioned OKX swap signed by D
\* that takes C from T1.  The addresses that get tracked, the content of the
\* lookup table, the answers of getParsedTransaction (one owner's USDC delta
\* in tenths of a USDC and token delta in raw units) and the clock steps.
OkxSwapData == <<19, 44, 130, 148, 72, 56, 44, 238, 1, 0>>
DFlowSwapData == <<65, 75, 63, 76, 235, 91, 91, 136, 1, 0>>
OtherData == <<2, 0, 0, 0>>
DecodedTxs ==
  { [signature |-> "s1", isVersioned |-> FALSE, accountKeys |-> <<"A", "okx">>,
     lookups |-> <<>>,
     instructions |-> << [programIdIndex |-> 2, data |-> OkxSwapData] >>],
    [signature |-> "s2", isVersioned |-> TRUE, accountKeys |-> <<"B", "A">>,
     lookups |-> << [accountKey |-> "T1", writableIndexes |-> <<1>>,
                     readonlyIndexes |-> <<2>>] >>,
     instructions |-> << [programIdIndex |-> 4, data |-> DFlowSwapData] >>],
    [signature |-> "s3", isVersioned |-> FALSE, accountKeys |-> <<"V", "vote">>,
     lookups |-> <<>>,
     instructions |-> << [programIdIndex |-> 2, data |-> OtherData] >>],
    [signature |-> "s4", isVersioned |-> TRUE, accountKeys |-> <<"D", "okx">>,
     lookups |-> << [accountKey |-> "T1", writableIndexes |-> <<1>>,
                     readonlyIndexes |-> <<>>] >>,
     instructions |-> << [programIdIndex |-> 2, data |-> OkxSwapData] >>] }
Signatures == {tx.signature : tx \in DecodedTxs}
Addresses == {"A", "B", "C", "D"}
TrackableAddresses == {"A", "B", "C"}
LookupTables == {"T1", "T2"}
TableAddresses ==
  [t \in LookupTables |-> IF t = "T1" THEN <<"C", "dflow">> ELSE <<"E", "F">>]
\* Versioned transactions with two lookups, for resolveAccountKeys: tables
\* T1 then T2 or T1 twice, indexes within and beyond the two entries of a
\* table.
WritableIndexChoices == {<<1>>, <<2, 1>>}
ReadonlyIndexChoices == {<<>>, <<2>>, <<3>>}
ResolveLookups ==
  [accountKey : LookupTables, writableIndexes : WritableIndexChoices,
   readonlyIndexes : ReadonlyIndexChoices]
ResolveTxs ==
  { [signature |-> "s2", isVersioned |-> TRUE, accountKeys |-> <<"B", "A">>,
     lookups |-> <<l1, l2>>, instructions |-> <<>>] :
       l1 \in {l \in ResolveLookups : l.accountKey = "T1"}, l2 \in ResolveLookups }
TableOutcomes == {"ok", "null", "error"}
ParsedAnswers ==
  { [present |-> FALSE, owner |-> "none", usdcDelta |-> 0, tokenMint |-> "m1",
     tokenDeltaRaw |-> 0] }
  \cup { [present |-> TRUE, owner |-> o, usdcDelta |-> d, tokenMint |-> "m1",
           tokenDeltaRaw |-> 0 - d * 60000] : o \in {"A", "B", "C", "D"}, d \in {-50, 50} }
AnalyzerTickSteps == {500}
Analyses == 1 .. MaxAnalyses
Submitters == 1 .. MaxSubmits
SubmitTxs == {"sigA", "sigB"}
Slots == 1 .. MaxSlots
\* Arguments of the ledger's calls: token amounts and USDC (tenths) of a
\* trade, wallet balances at a canTrade call.
LedgerTokenAmounts == {100000, 200000}
LedgerUsdcAmounts == {20}
LedgerBalances == {80, 200}
\* preTokenBalances / postTokenBalances entries of a parsed transaction:
\* token accounts of user A (raw amounts, USDC and m1 with 6 decimals) and
\* one of another owner.
TokenBalances ==
  [owner : {"A"}, mint : {USDC_MINT, "m1"}, amount : {1000000, 3000000}, decimals : {6}]
  \cup {[owner |-> "B", mint |-> USDC_MINT, amount |-> 1000000, decimals |-> 6]}
BalanceLists == UNION {[1 .. k -> TokenBalances] : k \in 0 .. MaxTokenBalances}
ParsedTxs == [pre : BalanceLists, post : BalanceLists, userAddress : {"A"}]
\* The bytes where a transaction is expected: `wire` is the size its wire
\* form measures (0: not measurable), `avail` the bytes the payload holds.
\* A well-formed transaction, bytes that do not measure, and a transaction
\* whose last declared length runs past the end of the payload.
ValidTx == [wire |-> 100, avail |-> 100]
BrokenTxs == {[wire |-> 0, avail |-> 10], [wire |-> 100, avail |-> 60]}
TxSeqs(S, n) == UNION {[1 .. k -> S] : k \in 0 .. n}
\* Entries as the payload holds them: only the last entry of a payload may
\* hold fewer transactions than it declares or end in broken bytes.
FullEntries ==
  {[numHashes |-> 1, txCount |-> k, txs |-> [t \in 1 .. k |-> ValidTx]] : k \in 0 .. MaxTxCount}
LastEntries ==
  {e \in [numHashes : {1}, txCount : 0 .. MaxTxCount,
          txs : TxSeqs({ValidTx} \cup BrokenTxs, MaxTxCount)] :
     /\ Len(e.txs) <= e.txCount
     /\ \A t \in 1 .. Len(e.txs) - 1 : e.txs[t] = ValidTx}
EntrySeqs ==
  {<<>>} \cup {<<e>> : e \in LastEntries}
         \cup {<<e1, e2>> : e1 \in FullEntries, e2 \in LastEntries}
\* A payload: the declared number of entries (bincode Vec length) and the
\* entries it holds; header = FALSE is the payload of zero bytes.
Payloads ==
  {[header |-> FALSE, count |-> 0, ents |-> <<>>]}
  \cup {[header |-> TRUE, count |-> n, ents |-> es] :
          n \in 0 .. MaxEntries + 1, es \in EntrySeqs}

VARIABLES
  now, ticks,                       \* Date.now() and the number of advances
  config,                           \* CopyTradeConfig and the optional collaborators
  positions,                        \* PositionManager.positions
  pc, trade, held, quote, events, skipReason, recorded, dupAtInvoke, txLookup,
                                    \* per processTrade invocation
  pendingCopies,                    \* CopyTradeEngine.pendingCopies
  txCache, nextTxId, building,      \* JupiterExecutor.txCache and its builders
  quoteCache,                       \* JupiterExecutor.quoteCache
  strategy,                         \* ExitManager.strategy
  checkInterval, lastFire,          \* ExitManager.checkInterval and its last firing
  exitStates,                       \* ExitManager.exitStates
  cycle,                            \* per checkAllPositions invocation
  bought, exitSold, fullExit, tpSells, trail,
                                    \* history: tokens bought, tokens sold by
                                    \* executed exits, executed 100 % exits,
                                    \* sells initiated per take-profit target,
                                    \* what the trailing-stop checks saw
  filterConfig,                     \* TradeFilter.config
  metadataCache,                    \* TradeFilter.metadataCache
  fcall,                            \* per shouldCopyTrade call
  refreshing,                       \* background metadata fetches in flight
  trackedUsers,                     \* TradeAnalyzer.trackedUsers
  lookupTableCache, lastRpcCall,    \* TradeAnalyzer's lookup table cache, rate limit
  analysis,                         \* per analyzeTransaction call
  emitCount,                        \* history: trades emitted per (signature, user)
  jito,                             \* JupiterExecutor.useJito, jitoTipAccounts, initJito
  submits,                          \* per send of a signed transaction
  frame,                            \* the shred-stream Entry being processed
  solanaEntries,                    \* processEntry: result of deserializeEntries
  parsedTx,                         \* a parsed transaction's token balances and the user
  deltas,                           \* result of extractTokenBalanceDeltas
  limits,                           \* PositionManager.limits
  riskCall,                         \* the last canTrade call: arguments, result,
                                    \* warnings emitted, and whether the buy it
                                    \* allowed was recorded next
  closedMints,                      \* history: mints of position_closed events
  quoteCalls,                       \* per getQuoteWithCache call
  client,                           \* ShredstreamClient's fields, and history
  streams,                          \* the entry streams it opened
  classify,                         \* an instruction list and its aggregator
  subs,                             \* SubscriptionManager's maps, and the last call
  market,                           \* the token's market, and the last price check
  measure,                          \* a byte buffer and its measured size
  gate                              \* index.ts: target wallets and the TRANSACTION gate

timeVars == <<now, ticks>>
copyProcVars == <<pc, trade, held, quote, events, skipReason, recorded, dupAtInvoke,
                  txLookup>>
executorVars == <<txCache, nextTxId, building, quoteCache>>
copyVars == <<config, copyProcVars, pendingCopies, executorVars>>
exitHistVars == <<bought, exitSold, fullExit, tpSells, trail>>
exitVars == <<strategy, checkInterval, lastFire, exitStates, cycle, exitHistVars>>
filterVars == <<filterConfig, metadataCache, fcall, refreshing>>
analyzerVars == <<trackedUsers, lookupTableCache, lastRpcCall, analysis, emitCount>>
submitVars == <<jito, submits>>
frameVars == <<frame, solanaEntries>>
deltaVars == <<parsedTx, deltas>>
ledgerVars == <<limits, riskCall, closedMints>>
quoteCallVars == <<quoteCalls>>
streamVars == <<client, streams>>
classifyVars == <<classify>>
subsVars == <<subs>>
marketVars == <<market>>
measureVars == <<measure>>
gateVars == <<gate>>
extraVars == <<streamVars, classifyVars, subsVars, marketVars, measureVars, gateVars>>
nonStreamVars == <<classifyVars, subsVars, marketVars, measureVars, gateVars>>
nonClassifyVars == <<streamVars, subsVars, marketVars, measureVars, gateVars>>
nonSubsVars == <<streamVars, classifyVars, marketVars, measureVars, gateVars>>
nonMarketVars == <<streamVars, classifyVars, subsVars, measureVars, gateVars>>
nonMeasureVars == <<streamVars, classifyVars, subsVars, marketVars, gateVars>>
nonGateVars == <<streamVars, classifyVars, marketVars, measureVars>>
auxVars == <<submitVars, frameVars, deltaVars, ledgerVars, quoteCallVars, extraVars>>
nonQuoteCallVars == <<submitVars, frameVars, deltaVars, ledgerVars, extraVars>>
coreAuxVars == <<submitVars, frameVars, deltaVars, ledgerVars, quoteCallVars>>
nonCopyVars == <<exitVars, filterVars, analyzerVars, auxVars>>
nonExitVars == <<copyVars, filterVars, analyzerVars, auxVars>>
nonFilterVars == <<copyVars, exitVars, analyzerVars, auxVars>>
nonAnalyzerVars == <<copyVars, exitVars, filterVars, auxVars>>
pipelineVars == <<timeVars, positions, copyVars, exitVars, filterVars, analyzerVars>>
vars == <<pipelineVars, auxVars>>

---------------------------------------------------------------------------
(***************************************************************************)
(* PositionManager                                                         *)
(***************************************************************************)
NoPosition ==
  [open |-> FALSE, amount |-> 0, totalCostUsdc |-> 0, entryPrice |-> 0,
   entryTime |-> 0, buyCount |-> 0, sellCount |-> 0]

OpenMints(pos) == {m \in Mints : pos[m].open}

RECURSIVE SumCost(_, _)
SumCost(pos, S) ==
  IF S = {} THEN 0
  ELSE LET m == CHOOSE x \in S : TRUE
       IN pos[m].totalCostUsdc + SumCost(pos, S \ {m})

getTotalExposure(pos) == SumCost(pos, OpenMints(pos))

\* Variants of canTrade that the ledger's properties must tell apart from
\* it: one that leaves the position's cost out of the size check, and one
\* that makes the size check before the reserve check.
canTradeNewOnly(pos, tokenMint, direction, amountUsdc, currentUsdcBalance) ==
  IF direction # "buy" THEN [allowed |-> pos[tokenMint].open, reason |-> "ok"]
  ELSE IF currentUsdcBalance - amountUsdc < limits.minUsdcReserve
  THEN [allowed |-> FALSE, reason |-> "reserve"]
  ELSE IF amountUsdc > limits.maxPositionSizeUsdc
  THEN [allowed |-> FALSE, reason |-> "position_size"]
  ELSE [allowed |-> TRUE, reason |-> "ok"]

canTradeSizeFirst(pos, tokenMint, direction, amountUsdc, currentUsdcBalance) ==
  LET currentPositionSize == IF pos[tokenMint].open THEN pos[tokenMint].totalCostUsdc ELSE 0
  IN IF direction # "buy" THEN [allowed |-> pos[tokenMint].open, reason |-> "ok"]
     ELSE IF currentPositionSize + amountUsdc > limits.maxPositionSizeUsdc
     THEN [allowed |-> FALSE, reason |-> "position_size"]
     ELSE IF currentUsdcBalance - amountUsdc < limits.minUsdcReserve
     THEN [allowed |-> FALSE, reason |-> "reserve"]
     ELSE [allowed |-> TRUE, reason |-> "ok"]

\* canTrade: the first failing check decides; a sell needs a position.
canTrade(pos, tokenMint, direction, amountUsdc, currentUsdcBalance) ==
  LET position == pos[tokenMint]
      totalExposure == getTotalExposure(pos)
      currentPositionSize == IF position.open THEN position.totalCostUsdc ELSE 0
      newPositionSize == currentPositionSize + amountUsdc
      newTotalExposure == totalExposure + amountUsdc
      size == Cardinality(OpenMints(pos))
  IN IF direction = "buy"
     THEN IF currentUsdcBalance - amountUsdc < limits.minUsdcReserve
          THEN [allowed |-> FALSE, reason |-> "reserve"]
          ELSE IF newPositionSize > limits.maxPositionSizeUsdc
          THEN [allowed |-> FALSE, reason |-> "position_size"]
          ELSE IF newTotalExposure > limits.maxTotalExposureUsdc
          THEN [allowed |-> FALSE, reason |-> "total_exposure"]
          ELSE IF ~position.open /\ size >= limits.maxOpenPositions
          THEN [allowed |-> FALSE, reason |-> "max_positions"]
          ELSE [allowed |-> TRUE, reason |-> "ok"]
     ELSE IF ~position.open \/ position.amount = 0
          THEN [allowed |-> FALSE, reason |-> "no_position"]
          ELSE [allowed |-> TRUE, reason |-> "ok"]

\* recordBuy: add to the position of the mint, or open one.
recordBuy(pos, tokenMint, tokenAmount, usdcSpent, pricePerToken, time) ==
  LET existing == pos[tokenMint]
      newAmount == existing.amount + tokenAmount
      newCost == existing.totalCostUsdc + usdcSpent
  IN IF existing.open
     THEN [pos EXCEPT ![tokenMint] =
            [existing EXCEPT !.amount = newAmount,
                             !.totalCostUsdc = newCost,
                             !.entryPrice = (newCost * PriceScale) \div newAmount,
                             !.buyCount = @ + 1]]
     ELSE [pos EXCEPT ![tokenMint] =
            [open |-> TRUE, amount |-> tokenAmount, totalCostUsdc |-> usdcSpent,
             entryPrice |-> pricePerToken, entryTime |-> time,
             buyCount |-> 1, sellCount |-> 0]]

\* A variant of recordSell that keeps a position whose amount reached 0.
recordSellKeep(pos, tokenMint, tokenAmount, usdcReceived) ==
  LET position == pos[tokenMint]
      newAmount == position.amount - tokenAmount
  IN IF ~position.open \/ newAmount < 0 THEN pos
     ELSE [pos EXCEPT ![tokenMint] =
            [position EXCEPT !.amount = newAmount, !.sellCount = @ + 1]]

\* recordSell: nothing without a position or when the amount exceeds it;
\* the position is deleted when its amount reaches 0.
recordSell(pos, tokenMint, tokenAmount, usdcReceived) ==
  LET position == pos[tokenMint]
      newAmount == position.amount - tokenAmount
      soldCost == (position.totalCostUsdc * tokenAmount) \div position.amount
  IN IF ~position.open THEN pos
     ELSE IF newAmount < 0 THEN pos
     ELSE IF newAmount = 0 THEN [pos EXCEPT ![tokenMint] = NoPosition]
     ELSE [pos EXCEPT ![tokenMint] =
            [position EXCEPT !.amount = newAmount,
                             !.totalCostUsdc = @ - soldCost,
                             !.sellCount = @ + 1]]

\* canTrade check 5, reached when a buy passed checks 1-4: the limit_warning
\* events emitted.  `x > max * 0.8` is compared as 10 x > 8 max.
limitWarnings(pos, tokenMint, amountUsdc) ==
  LET currentPositionSize == IF pos[tokenMint].open THEN pos[tokenMint].totalCostUsdc ELSE 0
      newPositionSize == currentPositionSize + amountUsdc
      newTotalExposure == getTotalExposure(pos) + amountUsdc
  IN (IF newPositionSize * 10 > limits.maxPositionSizeUsdc * 8
      THEN {"position_size"} ELSE {})
     \cup (IF newTotalExposure * 10 > limits.maxTotalExposureUsdc * 8
           THEN {"total_exposure"} ELSE {})

NoRiskCall ==
  [called |-> FALSE, tokenMint |-> "m1", direction |-> "buy", amountUsdc |-> 0,
   balance |-> 0, allowed |-> FALSE, reason |-> "none", warnings |-> {},
   newPositionSize |-> 0, newTotalExposure |-> 0, recorded |-> FALSE]

\* Calls recorded in the open positions (position.trades.length).
RECURSIVE SumTrades(_, _)
SumTrades(pos, S) ==
  IF S = {} THEN 0
  ELSE LET m == CHOOSE x \in S : TRUE
       IN pos[m].buyCount + pos[m].sellCount + SumTrades(pos, S \ {m})
RecordCount == SumTrades(positions, Mints)

\* A canTrade call on the ledger as it is.
CanTradeCall(tokenMint, direction, amountUsdc, balance) ==
  /\ LET r == canTrade(positions, tokenMint, direction, amountUsdc, balance)
     IN riskCall' =
          [called |-> TRUE, tokenMint |-> tokenMint, direction |-> direction,
           amountUsdc |-> amountUsdc, balance |-> balance,
           allowed |-> r.allowed, reason |-> r.reason,
           warnings |-> IF r.allowed /\ direction = "buy"
                        THEN limitWarnings(positions, tokenMint, amountUsdc) ELSE {},
           newPositionSize |-> (IF positions[tokenMint].open
                                THEN positions[tokenMint].totalCostUsdc ELSE 0) + amountUsdc,
           newTotalExposure |-> getTotalExposure(positions) + amountUsdc,
           recorded |-> FALSE]
  /\ UNCHANGED <<pipelineVars, quoteCalls, extraVars, submitVars, frameVars, deltaVars, limits, closedMints>>

\* A recordBuy call; `recorded` notes that it records the buy the last
\* canTrade call allowed, with nothing recorded in between.
RecordBuyCall(tokenMint, tokenAmount, usdcSpent) ==
  /\ RecordCount < MaxRecords
  /\ positions' = recordBuy(positions, tokenMint, tokenAmount, usdcSpent,
                            (usdcSpent * PriceScale) \div tokenAmount, now)
  /\ riskCall' = IF /\ riskCall.called /\ riskCall.allowed /\ ~riskCall.recorded
                    /\ riskCall.direction = "buy" /\ riskCall.tokenMint = tokenMint
                    /\ riskCall.amountUsdc = usdcSpent
                 THEN [riskCall EXCEPT !.recorded = TRUE]
                 ELSE NoRiskCall
  /\ UNCHANGED <<timeVars, copyVars, exitVars, filterVars, analyzerVars,
                 submitVars, frameVars, deltaVars, limits, closedMints, quoteCalls, extraVars>>

\* A recordSell call.
RecordSellCall(tokenMint, tokenAmount, usdcReceived) ==
  /\ RecordCount < MaxRecords
  /\ positions' = recordSell(positions, tokenMint, tokenAmount, usdcReceived)
  /\ riskCall' = NoRiskCall
  /\ closedMints' = IF positions[tokenMint].open /\ ~positions'[tokenMint].open
                    THEN closedMints \cup {tokenMint} ELSE closedMints
  /\ UNCHANGED <<timeVars, copyVars, exitVars, filterVars, analyzerVars,
                 submitVars, frameVars, deltaVars, limits, quoteCalls, extraVars>>

---------------------------------------------------------------------------
(***************************************************************************)
(* JupiterExecutor: quote cache and pre-built transaction cache            *)
(***************************************************************************)
NoTx == [present |-> FALSE, id |-> 0, expiresAt |-> 0, outAmount |-> 0]
NoQuote == [present |-> FALSE, inAmount |-> 0, outAmount |-> 0, timestamp |-> 0]

\* Math.floor(usdcAmount * 1_000_000) for an amount in tenths of a USDC.
UsdcRaw(usdcAmount) == usdcAmount * UsdcRawPerTenth

getCacheKey(inputMint, outputMint, amount, swapMode) ==
  <<inputMint, outputMint, amount, swapMode>>

BuyKey(m) == getCacheKey(USDC_MINT, m, UsdcRaw(tradeAmountUsdc), "ExactIn")
SellKey(m) == getCacheKey(m, USDC_MINT, UsdcRaw(tradeAmountUsdc), "ExactOut")
QuoteKeys == {BuyKey(m) : m \in Mints} \cup {SellKey(m) : m \in Mints}

\* The answers of the quote API: ExactIn spends the USDC amount for tokens,
\* ExactOut sells tokens for the USDC amount.
QuoteAnswers(swapMode) ==
  IF swapMode = "ExactIn"
  THEN {[present |-> TRUE, inAmount |-> UsdcRaw(tradeAmountUsdc), outAmount |-> a,
         timestamp |-> 0] : a \in BuyTokenAmounts}
  ELSE {[present |-> TRUE, inAmount |-> a, outAmount |-> UsdcRaw(tradeAmountUsdc),
         timestamp |-> 0] : a \in SellTokenAmounts}

\* buyToken quotes ExactIn, sellTokenForUsdcAmount quotes ExactOut.
SwapModeOf(t) == IF t.direction = "buy" THEN "ExactIn" ELSE "ExactOut"

\* getQuoteWithCache: the cached quote when it is younger than the TTL.
QuoteCacheHit(key) ==
  quoteCache[key].present /\ now - quoteCache[key].timestamp < QUOTE_CACHE_TTL

\* The fast-path test of buyToken on the entry it read from txCache.
PreBuiltUsable(cached) == cached.present /\ now < cached.expiresAt

---------------------------------------------------------------------------
(***************************************************************************)
(* CopyTradeEngine.processTrade                                            *)
(***************************************************************************)
InFlightPc == {"sendPreBuilt", "quote", "swap"}

\* History of buyToken's look at txCache: whether the entry it read had
\* expired, whether it was sent, whether the cache holds an entry afterwards.
NoLookup == [done |-> FALSE, expired |-> FALSE, sent |-> FALSE, kept |-> FALSE]
Processing(q) == pc[q] \notin {"idle", "done"}

\* A filter rejects the trade: copy_skipped with the reason, and return.
Skip(p, t, reason) ==
  /\ pc' = [pc EXCEPT ![p] = "done"]
  /\ events' = [events EXCEPT ![p] = Append(@, "copy_skipped")]
  /\ skipReason' = [skipReason EXCEPT ![p] = reason]
  /\ UNCHANGED <<held, quote, recorded, pendingCopies, executorVars, positions, txLookup>>

\* getQuoteWithCache(..) then executeSwap(quote): a fresh cached quote goes
\* straight to the swap request, otherwise the quote is fetched first.
OnDemand(p, key) ==
  IF QuoteCacheHit(key)
  THEN /\ quote' = [quote EXCEPT ![p] = quoteCache[key]]
       /\ pc' = [pc EXCEPT ![p] = "swap"]
  ELSE /\ quote' = quote
       /\ pc' = [pc EXCEPT ![p] = "quote"]

\* "Execute copy trade!": mark the signature pending, emit copy_initiated and
\* run buyToken / sellTokenForUsdcAmount up to its first await.
BeginExec(p, t) ==
  /\ pendingCopies' = pendingCopies \cup {t.signature}
  /\ events' = [events EXCEPT ![p] = Append(@, "copy_initiated")]
  /\ IF t.direction = "buy"
     THEN LET cached == txCache[t.tokenMint]
          IN IF PreBuiltUsable(cached)
             THEN /\ held' = [held EXCEPT ![p] = cached]
                  /\ pc' = [pc EXCEPT ![p] = "sendPreBuilt"]
                  /\ quote' = quote
             ELSE /\ held' = held
                  /\ OnDemand(p, BuyKey(t.tokenMint))
     ELSE /\ held' = held
          /\ OnDemand(p, SellKey(t.tokenMint))
  /\ UNCHANGED <<skipReason, recorded, executorVars, positions>>
  /\ txLookup' = [txLookup EXCEPT ![p] =
        IF t.direction = "buy"
        THEN [done |-> TRUE,
              expired |-> txCache[t.tokenMint].present
                            /\ ~(now < txCache[t.tokenMint].expiresAt),
              sent |-> pc'[p] = "sendPreBuilt",
              kept |-> txCache'[t.tokenMint].present]
        ELSE NoLookup]

\* Filter 6 and what follows it.
RiskCheckThenExec(p, t, usdcBalance) ==
  LET riskCheck == canTrade(positions, t.tokenMint, t.direction, tradeAmountUsdc, usdcBalance)
  IN IF riskCheck.allowed THEN BeginExec(p, t) ELSE Skip(p, t, "risk_limit")

\* The token amount processTrade passes to the ledger after a successful send.
LedgerTokenAmount(t, copyResult) == copyResult.outAmount

\* The success branch: record the position, emit copy_complete, and the
\* finally block.
Complete(p, t, copyResult) ==
  LET tokenAmount == LedgerTokenAmount(t, copyResult)
      usdcAmount == tradeAmountUsdc
      pricePerToken == (usdcAmount * PriceScale) \div tokenAmount
  IN /\ IF config.hasPM
        THEN /\ positions' =
                  IF t.direction = "buy"
                  THEN recordBuy(positions, t.tokenMint, tokenAmount, usdcAmount,
                                 pricePerToken, now)
                  ELSE recordSell(positions, t.tokenMint, tokenAmount, usdcAmount)
             /\ recorded' = [recorded EXCEPT ![p] =
                              [op |-> t.direction, tokenAmount |-> tokenAmount]]
        ELSE UNCHANGED <<positions, recorded>>
     /\ events' = [events EXCEPT ![p] = Append(@, "copy_complete")]
     /\ pendingCopies' = pendingCopies \ {t.signature}
     /\ pc' = [pc EXCEPT ![p] = "done"]

\* A variant of the failure branch that emits nothing, which the event
\* properties must tell apart from it.
FailQuiet(p, t) ==
  /\ pendingCopies' = pendingCopies \ {t.signature}
  /\ pc' = [pc EXCEPT ![p] = "done"]
  /\ UNCHANGED <<events, positions, recorded>>

\* A variant of the failure branch that records the trade in the ledger
\* before it reports the failure.
FailRecording(p, t) ==
  /\ events' = [events EXCEPT ![p] = Append(@, "copy_failed")]
  /\ pendingCopies' = pendingCopies \ {t.signature}
  /\ pc' = [pc EXCEPT ![p] = "done"]
  /\ positions' = recordBuy(positions, t.tokenMint, 1000, tradeAmountUsdc,
                            (tradeAmountUsdc * PriceScale) \div 1000, now)
  /\ UNCHANGED recorded

\* A variant of the failure branch that keeps the in-flight mark.
FailMarked(p, t) ==
  /\ events' = [events EXCEPT ![p] = Append(@, "copy_failed")]
  /\ pc' = [pc EXCEPT ![p] = "done"]
  /\ UNCHANGED <<pendingCopies, positions, recorded>>

\* copyResult.error, or an exception: copy_failed, and the finally block.
Fail(p, t) ==
  /\ events' = [events EXCEPT ![p] = Append(@, "copy_failed")]
  /\ pendingCopies' = pendingCopies \ {t.signature}
  /\ pc' = [pc EXCEPT ![p] = "done"]
  /\ UNCHANGED <<positions, recorded>>

\* processTrade is invoked for a trade: filters 1 to 4 run at once.
ProcessTrade(p, t) ==
  /\ pc[p] = "idle"
  /\ trade' = [trade EXCEPT ![p] = t]
  /\ dupAtInvoke' = [dupAtInvoke EXCEPT ![p] =
        \E q \in Procs \ {p} : Processing(q) /\ trade[q].signature = t.signature]
  /\ IF config.copyBuysOnly /\ t.direction # "buy"
     THEN Skip(p, t, "sell_trade")
     ELSE IF config.allowedTokens # {} /\ t.tokenMint \notin config.allowedTokens
     THEN Skip(p, t, "token_not_allowed")
     ELSE IF t.usdcAmount < minTradeUsdc
     THEN Skip(p, t, "below_minimum")
     ELSE IF t.signature \in pendingCopies
     THEN Skip(p, t, "already_copying")
     ELSE IF config.hasFilter
     THEN /\ pc' = [pc EXCEPT ![p] = "filter"]
          /\ UNCHANGED <<held, quote, events, skipReason, recorded, pendingCopies,
                         executorVars, positions, txLookup>>
     ELSE IF config.hasPM
     THEN /\ pc' = [pc EXCEPT ![p] = "balance"]
          /\ UNCHANGED <<held, quote, events, skipReason, recorded, pendingCopies,
                         executorVars, positions, txLookup>>
     ELSE BeginExec(p, t)
  /\ UNCHANGED <<nonCopyVars, timeVars, config>>

\* await tradeFilter.shouldCopyTrade(..) returns.
FilterResolved(p, allowed) ==
  /\ pc[p] = "filter"
  /\ IF ~allowed
     THEN Skip(p, trade[p], "smart_filter")
     ELSE IF config.hasPM
     THEN /\ pc' = [pc EXCEPT ![p] = "balance"]
          /\ UNCHANGED <<held, quote, events, skipReason, recorded, pendingCopies,
                         executorVars, positions, txLookup>>
     ELSE BeginExec(p, trade[p])
  /\ UNCHANGED <<nonCopyVars, timeVars, config, trade, dupAtInvoke>>

\* await walletManager.getUsdcBalance() returns: filter 6.
BalanceResolved(p, usdcBalance) ==
  /\ pc[p] = "balance"
  /\ RiskCheckThenExec(p, trade[p], usdcBalance)
  /\ UNCHANGED <<nonCopyVars, timeVars, config, trade, dupAtInvoke>>

\* await sendPreBuiltTransaction(cached) returns or throws (buyToken).
PreBuiltSendResolved(p, ok) ==
  LET t == trade[p]
  IN /\ pc[p] = "sendPreBuilt"
     /\ txCache' = [txCache EXCEPT ![t.tokenMint] = NoTx]
     /\ IF ok
        THEN /\ building' = [building EXCEPT ![t.tokenMint] =
                               IF @ < MaxBuilding THEN @ + 1 ELSE @]
             /\ Complete(p, t, [inAmount |-> UsdcRaw(tradeAmountUsdc),
                                outAmount |-> held[p].outAmount])
             /\ quote' = quote
        ELSE /\ building' = building
             /\ OnDemand(p, BuyKey(t.tokenMint))
             /\ UNCHANGED <<events, pendingCopies, positions, recorded>>
     /\ UNCHANGED <<nonCopyVars, timeVars, config, trade, dupAtInvoke, txLookup, held, skipReason,
                    nextTxId, quoteCache>>

\* await getQuote(..) returns a quote or throws; then executeSwap starts.
QuoteResolved(p, ok, q) ==
  LET t == trade[p]
  IN /\ pc[p] = "quote"
     /\ IF ok
        THEN /\ quote' = [quote EXCEPT ![p] = q]
             /\ pc' = [pc EXCEPT ![p] = "swap"]
             /\ UNCHANGED <<events, pendingCopies, positions, recorded>>
        ELSE /\ quote' = quote
             /\ Fail(p, t)
     /\ UNCHANGED <<nonCopyVars, timeVars, config, trade, dupAtInvoke, txLookup, held, skipReason, executorVars>>

\* executeSwap returns: the signature of the sent swap, or an error result.
SwapResolved(p, ok) ==
  LET t == trade[p]
  IN /\ pc[p] = "swap"
     /\ IF ok
        THEN Complete(p, t, [inAmount |-> quote[p].inAmount,
                             outAmount |-> quote[p].outAmount])
        ELSE Fail(p, t)
     /\ UNCHANGED <<nonCopyVars, timeVars, config, trade, dupAtInvoke, txLookup, held, quote, skipReason,
                    executorVars>>

(***************************************************************************)
(* JupiterExecutor background work                                         *)
(***************************************************************************)
\* preFetchQuotes: one token's quote arrives and is cached.
PreFetchQuoteDone(m, q) ==
  /\ m \in config.allowedTokens
  /\ quoteCache' = [quoteCache EXCEPT ![BuyKey(m)] = [q EXCEPT !.timestamp = now]]
  /\ UNCHANGED <<nonCopyVars, timeVars, config, positions, copyProcVars, pendingCopies,
                 txCache, nextTxId, building>>

\* preBuildTransaction finishes: the signed transaction is cached, or the
\* build failed and only a warning is logged.
PreBuildDone(m, ok, a) ==
  /\ building[m] > 0
  /\ building' = [building EXCEPT ![m] = @ - 1]
  /\ IF ok /\ nextTxId <= MaxPreBuilt
     THEN /\ txCache' = [txCache EXCEPT ![m] =
                [present |-> TRUE, id |-> nextTxId,
                 expiresAt |-> now + PREBUILT_TX_TTL, outAmount |-> a]]
          /\ nextTxId' = nextTxId + 1
     ELSE UNCHANGED <<txCache, nextTxId>>
  /\ UNCHANGED <<nonCopyVars, timeVars, config, positions, copyProcVars, pendingCopies, quoteCache>>

\* refreshPreBuiltTransactions: rebuild what is missing or close to expiry.
RefreshPreBuilt ==
  LET tokensToRefresh ==
        {m \in config.allowedTokens :
           ~txCache[m].present \/ txCache[m].expiresAt - now < PREBUILT_REFRESH_MARGIN}
  IN /\ tokensToRefresh # {}
     /\ building' = [m \in Mints |->
           IF m \in tokensToRefresh /\ building[m] < MaxBuilding
           THEN building[m] + 1 ELSE building[m]]
     /\ UNCHANGED <<nonCopyVars, timeVars, config, positions, copyProcVars, pendingCopies,
                    txCache, nextTxId, quoteCache>>

\* Time passes.
Tick(d, max) ==
  /\ ticks < max
  /\ now' = now + d
  /\ ticks' = ticks + 1

TickCopy ==
  /\ \E d \in TickSteps : Tick(d, MaxTicks)
  /\ UNCHANGED <<positions, copyVars, nonCopyVars>>

(***************************************************************************)
(* JupiterExecutor.getQuoteWithCache, call by call                         *)
(***************************************************************************)
IdleQuoteCall ==
  [pc |-> "idle", key |-> <<>>, calledAt |-> 0, fetched |-> FALSE,
   afterMiss |-> FALSE, result |-> NoQuote]

\* A call of this key that went to the quote API, has returned its quote,
\* and was made less than the TTL ago.
RecentMiss(key) ==
  \E d \in QuoteCallers :
     /\ quoteCalls[d].pc = "done" /\ quoteCalls[d].fetched
     /\ quoteCalls[d].key = key
     /\ now - quoteCalls[d].calledAt < QUOTE_CACHE_TTL

\* getQuoteWithCache up to its return or to the await in getQuote: a cached
\* quote younger than the TTL is returned, otherwise the request is sent.
GetQuoteWithCache(c, key) ==
  /\ quoteCalls[c].pc = "idle"
  /\ quoteCalls' = [quoteCalls EXCEPT ![c] =
        [pc |-> IF QuoteCacheHit(key) THEN "done" ELSE "fetch",
         key |-> key, calledAt |-> now,
         fetched |-> ~QuoteCacheHit(key),
         afterMiss |-> RecentMiss(key),
         result |-> IF QuoteCacheHit(key) THEN quoteCache[key] ELSE NoQuote]]
  /\ UNCHANGED <<pipelineVars, nonQuoteCallVars>>

\* await fetch(..) in getQuote: the quote is returned to the caller, or the
\* request failed and getQuote throws.
GetQuoteResolved(c, ok) ==
  /\ quoteCalls[c].pc = "fetch"
  /\ \E q \in QuoteAnswers(quoteCalls[c].key[4]) :
        quoteCalls' = [quoteCalls EXCEPT ![c].pc = IF ok THEN "done" ELSE "failed",
                                         ![c].result = IF ok THEN q ELSE NoQuote]
  /\ UNCHANGED <<pipelineVars, nonQuoteCallVars>>

TickQuote ==
  /\ \E d \in QuoteTickSteps : Tick(d, MaxQuoteTicks)
  /\ UNCHANGED <<positions, copyVars, nonCopyVars>>

---------------------------------------------------------------------------
(***************************************************************************)
(* ShredstreamClient                                                       *)
(***************************************************************************)
StreamIds == 1 .. MaxStreams
ReconnectCaps == 1 .. MaxReconnectCap
GrpcErrorCodes == {"CANCELLED", "UNAVAILABLE"}

\* The client after construction.  entryCall is the stream held (0: none);
\* timer says whether the reconnect timeout is pending.  History: made counts
\* the connects the reconnect timer made since the last successful connect,
\* maxEmitted and madeAtMax record MAX_RECONNECT_ATTEMPTS_REACHED, started
\* and disconnected the calls of connect() and disconnect(), and the last
\* two what happened after disconnect().
NewClient(cap) ==
  [maxReconnectAttempts |-> cap, reconnectAttempts |-> 0, isConnected |-> FALSE,
   timer |-> FALSE, entryCall |-> 0,
   started |-> FALSE, made |-> 0, maxEmitted |-> FALSE, madeAtMax |-> 0,
   disconnected |-> FALSE, connectAfterDisconnect |-> FALSE,
   connectedAfterDisconnect |-> FALSE]

NoStream ==
  [opened |-> FALSE, connectPending |-> FALSE, cancelled |-> FALSE,
   errored |-> FALSE, ended |-> FALSE]

StreamCount == Cardinality({s \in StreamIds : streams[s].opened})

\* scheduleReconnect(): the pending timeout is cleared; at the cap
\* MAX_RECONNECT_ATTEMPTS_REACHED is emitted, below it the counter goes up
\* and the timeout is set.
scheduleReconnect(c) ==
  IF c.reconnectAttempts >= c.maxReconnectAttempts
  THEN [c EXCEPT !.timer = FALSE, !.maxEmitted = TRUE, !.madeAtMax = c.made]
  ELSE [c EXCEPT !.timer = TRUE, !.reconnectAttempts = @ + 1]

\* connect() up to its await: a stream is opened and held in entryCall.
OpenStream(c) ==
  LET s == StreamCount + 1
  IN /\ s \in StreamIds
     /\ streams' = [streams EXCEPT ![s] = [NoStream EXCEPT !.opened = TRUE,
                                                         !.connectPending = TRUE]]
     /\ client' = [c EXCEPT !.entryCall = s,
                             !.connectAfterDisconnect = @ \/ c.disconnected]

\* index.ts calls connect().
Connect ==
  /\ ~client.started
  /\ OpenStream([client EXCEPT !.started = TRUE])
  /\ UNCHANGED <<pipelineVars, coreAuxVars, nonStreamVars>>

\* The reconnect timeout fires: connect() again.
ReconnectTimerFired ==
  /\ client.timer
  /\ OpenStream([client EXCEPT !.timer = FALSE, !.made = @ + 1])
  /\ UNCHANGED <<pipelineVars, coreAuxVars, nonStreamVars>>

\* subscribeToEntries resolves (the 100 ms timeout, or status OK) and
\* connect() goes on after its await.
ConnectResolved(s) ==
  /\ streams[s].connectPending
  /\ streams' = [streams EXCEPT ![s].connectPending = FALSE]
  /\ client' = [client EXCEPT !.isConnected = TRUE, !.reconnectAttempts = 0,
                              !.made = 0,
                              !.connectedAfterDisconnect = @ \/ client.disconnected]
  /\ UNCHANGED <<pipelineVars, coreAuxVars, nonStreamVars>>

\* The stream's 'error' event: a cancelled stream reports CANCELLED.  The
\* handler rejects the promise of subscribeToEntries; if connect() is still
\* awaiting it, its catch block schedules a reconnect as well.
StreamError(s, code) ==
  /\ streams[s].opened /\ ~streams[s].errored /\ ~streams[s].ended
  /\ (code = "CANCELLED") = streams[s].cancelled
  /\ streams' = [streams EXCEPT ![s].errored = TRUE, ![s].connectPending = FALSE]
  /\ LET c0 == [client EXCEPT !.isConnected = FALSE]
         c1 == IF code # "CANCELLED" THEN scheduleReconnect(c0) ELSE c0
     IN client' = IF streams[s].connectPending THEN scheduleReconnect(c1) ELSE c1
  /\ UNCHANGED <<pipelineVars, coreAuxVars, nonStreamVars>>

\* The stream's 'end' event: the server closed the stream.
StreamEnd(s) ==
  /\ streams[s].opened /\ ~streams[s].errored /\ ~streams[s].ended
  /\ ~streams[s].cancelled
  /\ streams' = [streams EXCEPT ![s].ended = TRUE]
  /\ client' = scheduleReconnect([client EXCEPT !.isConnected = FALSE])
  /\ UNCHANGED <<pipelineVars, coreAuxVars, nonStreamVars>>

\* disconnect(): the timeout is cleared, the held stream is cancelled.
Disconnect ==
  /\ client.started /\ ~client.disconnected
  /\ streams' = IF client.entryCall # 0
                THEN [streams EXCEPT ![client.entryCall].cancelled = TRUE]
                ELSE streams
  /\ client' = [client EXCEPT !.timer = FALSE, !.entryCall = 0,
                              !.isConnected = FALSE, !.disconnected = TRUE]
  /\ UNCHANGED <<pipelineVars, coreAuxVars, nonStreamVars>>

---------------------------------------------------------------------------
(***************************************************************************)
(* ExitManager                                                             *)
(***************************************************************************)
NoExitState == [present |-> FALSE, tpHit |-> {}, highWaterMark |-> 0]
IdleCycle ==
  [pc |-> "idle", list |-> <<>>, idx |-> 0, prices |-> [m \in Mints |-> 0],
   entry |-> 0, step |-> 0, tokens |-> 0]

\* The strategies index.ts builds: the default ladder, stop loss and hold
\* time, with or without the optional trailing stop (0: not configured).
Strategies ==
  { [takeProfitTargets |-> << [profitPercent |-> 50,  sellPercent |-> 25],
                              [profitPercent |-> 100, sellPercent |-> 50],
                              [profitPercent |-> 300, sellPercent |-> 100] >>,
     stopLossPercent |-> -30,
     maxHoldTimeHours |-> 24,
     trailingStopPercent |-> ts[1],
     trailingActivationPercent |-> ts[2]] : ts \in {<<0, 0>>, <<20, 50>>} }

\* profitPercent = ((currentPrice / entryPrice) - 1) * 100 compared with a
\* threshold, without the division.
ProfitAtLeast(currentPrice, entryPrice, percent) ==
  currentPrice * 100 >= entryPrice * (100 + percent)
ProfitAtMost(currentPrice, entryPrice, percent) ==
  currentPrice * 100 <= entryPrice * (100 + percent)

\* The checks of one position in the order checkAllPositions runs them: the
\* take-profit targets in order, stop loss, time limit, trailing stop.
TpCount == Len(strategy.takeProfitTargets)
StepStopLoss == TpCount + 1
StepTimeLimit == TpCount + 2
StepTrailingStop == TpCount + 3

\* The condition under which a check calls executeSell.
ExitTriggered(es, cyc, step) ==
  LET mint == cyc.list[cyc.idx]
      currentPrice == cyc.prices[mint]
      exitState == es[mint]
  IN IF step <= TpCount
     THEN LET tp == strategy.takeProfitTargets[step]
          IN /\ ProfitAtLeast(currentPrice, cyc.entry, tp.profitPercent)
             /\ tp.profitPercent \notin exitState.tpHit
     ELSE IF step = StepStopLoss
     THEN ProfitAtMost(currentPrice, cyc.entry, strategy.stopLossPercent)
     ELSE IF step = StepTimeLimit
     THEN /\ strategy.maxHoldTimeHours # 0
          /\ now - positions[mint].entryTime >= strategy.maxHoldTimeHours * MsPerHour
     ELSE /\ strategy.trailingStopPercent # 0
          /\ strategy.trailingActivationPercent # 0
          /\ ProfitAtLeast(currentPrice, cyc.entry, strategy.trailingActivationPercent)
          /\ (exitState.highWaterMark - currentPrice) * 100
               >= strategy.trailingStopPercent * exitState.highWaterMark

SellPercentOf(step) ==
  IF step <= TpCount THEN strategy.takeProfitTargets[step].sellPercent ELSE 100

\* executeSell up to its await: tokensToSell from the position as the ledger
\* has it now.
tokensToSell(mint, sellPercent) == (positions[mint].amount * sellPercent) \div 100

\* checkAllPositions from a given check of the current position, or from a
\* given position of its list, up to the next executeSell that suspends or to
\* its end.  The result is the exit states and the cycle as they are then.
RECURSIVE RunChecks(_, _, _)
RECURSIVE EnterPosition(_, _, _)
RunChecks(es, cyc, step) ==
  IF step > StepTrailingStop
  THEN EnterPosition(es, cyc, cyc.idx + 1)
  ELSE IF ExitTriggered(es, cyc, step)
  THEN [es |-> es,
        cyc |-> [cyc EXCEPT !.pc = "sell", !.step = step,
                   !.tokens = tokensToSell(cyc.list[cyc.idx], SellPercentOf(step))]]
  ELSE RunChecks(es, cyc, step + 1)

EnterPosition(es, cyc, idx) ==
  IF idx > Len(cyc.list)
  THEN [es |-> es, cyc |-> [IdleCycle EXCEPT !.pc = "done"]]
  ELSE LET mint == cyc.list[idx]
           currentPrice == cyc.prices[mint]
           created == IF es[mint].present THEN es[mint]
                      ELSE [present |-> TRUE, tpHit |-> {},
                            highWaterMark |-> currentPrice]
           exitState == IF currentPrice > created.highWaterMark
                        THEN [created EXCEPT !.highWaterMark = currentPrice]
                        ELSE created
       IN IF currentPrice = 0
          THEN EnterPosition(es, cyc, idx + 1)
          ELSE RunChecks([es EXCEPT ![mint] = exitState],
                         [cyc EXCEPT !.idx = idx, !.entry = positions[mint].entryPrice],
                         1)

\* The orders in which getPositions() can list the open positions.
PositionLists ==
  LET open == OpenMints(positions)
  IN {l \in [1 .. Cardinality(open) -> open] :
        \A i, j \in 1 .. Cardinality(open) : i # j => l[i] # l[j]}

\* A sell is initiated for a take-profit target: history only.
NoteInitiated(cyc) ==
  tpSells' =
    IF cyc.pc = "sell" /\ cyc.step <= TpCount
    THEN [tpSells EXCEPT ![cyc.list[cyc.idx]][cyc.step] = @ + 1]
    ELSE tpSells

\* What a run of the checks over list[firstEntered ..] saw, r being its
\* result: history only.  `reached`: the profit was at or above the trailing
\* activation at some check; for the last trailing-stop check of the mint,
\* `due`: the drawdown from the high-water mark was at or above the trailing
\* stop percent, `fired`: the check called executeSell.
NoTrail == [reached |-> FALSE, evaluated |-> FALSE, due |-> FALSE, fired |-> FALSE]

NoteTrailing(list, prices, firstEntered, firstEval, r) ==
  LET lastEntered == IF r.cyc.pc = "sell" THEN r.cyc.idx ELSE Len(list)
      lastEval == IF r.cyc.pc = "sell" /\ r.cyc.step # StepTrailingStop
                  THEN r.cyc.idx - 1 ELSE lastEntered
      Seen(m, from, to) == \E i \in from .. to : list[i] = m /\ prices[m] # 0
  IN trail' = [m \in Mints |->
       LET reachedNow == /\ Seen(m, firstEntered, lastEntered)
                         /\ ProfitAtLeast(prices[m], positions[m].entryPrice,
                                          strategy.trailingActivationPercent)
       IN IF Seen(m, firstEval, lastEval)
          THEN [reached |-> trail[m].reached \/ reachedNow,
                evaluated |-> TRUE,
                due |-> (r.es[m].highWaterMark - prices[m]) * 100
                          >= strategy.trailingStopPercent * r.es[m].highWaterMark,
                fired |-> /\ r.cyc.pc = "sell" /\ r.cyc.step = StepTrailingStop
                          /\ r.cyc.list[r.cyc.idx] = m]
          ELSE [trail[m] EXCEPT !.reached = @ \/ reachedNow]]

\* checkAllPositions up to its first await: return without positions,
\* otherwise fetch the prices.
BeginCycle(c) ==
  /\ IF OpenMints(positions) = {}
     THEN cycle' = [cycle EXCEPT ![c] = [IdleCycle EXCEPT !.pc = "done"]]
     ELSE \E l \in PositionLists :
            cycle' = [cycle EXCEPT ![c] = [IdleCycle EXCEPT !.pc = "fetch", !.list = l]]
  /\ UNCHANGED <<strategy, exitStates, exitHistVars>>

\* start(): arm the interval and run the initial check.
Start ==
  /\ ~checkInterval
  /\ checkInterval' = TRUE
  /\ lastFire' = now
  /\ BeginCycle(1)
  /\ UNCHANGED <<timeVars, positions, nonExitVars>>

\* The interval fires: another checkAllPositions starts, whether or not an
\* earlier one is still awaiting.
IntervalFires(c) ==
  /\ checkInterval
  /\ c > 1 /\ cycle[c].pc = "idle" /\ cycle[c - 1].pc # "idle"
  /\ now >= lastFire + checkIntervalSeconds * 1000
  /\ lastFire' = now
  /\ BeginCycle(c)
  /\ UNCHANGED <<checkInterval, timeVars, positions, nonExitVars>>

\* await fetchPrices(..) returns: pr has no price (0) for every mint when
\* the fetch failed.  The checks run up to the first sell.
PricesFetched(c, pr) ==
  /\ cycle[c].pc = "fetch"
  /\ \A m \in Mints : (\A i \in 1 .. Len(cycle[c].list) : cycle[c].list[i] # m) => pr[m] = 0
  /\ LET r == EnterPosition(exitStates, [cycle[c] EXCEPT !.prices = pr], 1)
     IN /\ exitStates' = r.es
        /\ cycle' = [cycle EXCEPT ![c] = r.cyc]
        /\ NoteInitiated(r.cyc)
        /\ NoteTrailing(cycle[c].list, pr, 1, 1, r)
  /\ UNCHANGED <<strategy, checkInterval, lastFire, bought, exitSold, fullExit,
                 timeVars, positions, nonExitVars>>

\* await jupiterExecutor.sellToken(..) returns inside executeSell:
\* exit_executed or exit_failed, then back in the check that called it, and
\* on through the following checks.
SellResolved(c, ok) ==
  /\ cycle[c].pc = "sell"
  /\ LET cyc == cycle[c]
         mint == cyc.list[cyc.idx]
         es == IF cyc.step <= TpCount
               THEN [exitStates EXCEPT ![mint].tpHit =
                        @ \cup {strategy.takeProfitTargets[cyc.step].profitPercent}]
               ELSE exitStates
         r == RunChecks(es, cyc, cyc.step + 1)
     IN /\ exitSold' = IF ok THEN [exitSold EXCEPT ![mint] = @ + cyc.tokens] ELSE exitSold
        /\ fullExit' = IF ok /\ SellPercentOf(cyc.step) = 100
                       THEN [fullExit EXCEPT ![mint] = TRUE] ELSE fullExit
        /\ exitStates' = r.es
        /\ cycle' = [cycle EXCEPT ![c] = r.cyc]
        /\ NoteInitiated(r.cyc)
        /\ NoteTrailing(cyc.list, cyc.prices, cyc.idx + 1,
                        IF cyc.step < StepTrailingStop THEN cyc.idx ELSE cyc.idx + 1, r)
  /\ UNCHANGED <<strategy, checkInterval, lastFire, bought, timeVars, positions,
                 nonExitVars>>

\* The copy engine records a completed buy in the ledger.
BuyRecorded(m, tokenAmount) ==
  /\ bought[m] = 0
  /\ Cardinality({x \in Mints : bought[x] > 0}) < MaxBuys
  /\ positions' = recordBuy(positions, m, tokenAmount, tradeAmountUsdc,
                            (tradeAmountUsdc * PriceScale) \div tokenAmount, now)
  /\ bought' = [bought EXCEPT ![m] = @ + tokenAmount]
  /\ UNCHANGED <<strategy, checkInterval, lastFire, exitStates, cycle, exitSold,
                 fullExit, tpSells, trail, timeVars, nonExitVars>>

\* The copy engine records a completed buy of a mint without a position:
\* recordBuy opens a position, the first or a later one of the mint.
PositionBought(m, tokenAmount) ==
  /\ ~positions[m].open
  /\ bought[m] < MaxOpens * tokenAmount
  /\ positions' = recordBuy(positions, m, tokenAmount, tradeAmountUsdc,
                            (tradeAmountUsdc * PriceScale) \div tokenAmount, now)
  /\ bought' = [bought EXCEPT ![m] = @ + tokenAmount]
  /\ UNCHANGED <<strategy, checkInterval, lastFire, exitStates, cycle, exitSold,
                 fullExit, tpSells, trail, timeVars, nonExitVars>>

\* The copy engine records a completed sell of the whole position:
\* recordSell deletes the position.
PositionSold(m) ==
  /\ positions[m].open
  /\ positions' = recordSell(positions, m, positions[m].amount, tradeAmountUsdc)
  /\ UNCHANGED <<exitVars, timeVars, nonExitVars>>

TickExit ==
  /\ \E d \in ExitTickSteps : Tick(d, MaxExitTicks)
  /\ UNCHANGED <<positions, exitVars, nonExitVars>>

---------------------------------------------------------------------------
(***************************************************************************)
(* TradeFilter                                                             *)
(***************************************************************************)
NoMetadata ==
  [present |-> FALSE, liquidity |-> 0, volume24h |-> 0, tokenAge |-> 0,
   priceHistory |-> <<>>, lastUpdated |-> 0]
IdleCall ==
  [pc |-> "idle", tokenMint |-> "m1", startedAt |-> 0, fetched |-> "none",
   allowed |-> FALSE, reason |-> "none"]

\* What fetchDexScreenerData returns when the request fails (network error
\* or non-OK response) and when the token has no pair.
DexDefaults == [liquidity |-> 0, volume24h |-> 0, tokenAge |-> 0, price |-> 0]

fetchDexScreenerData(outcome, pair) ==
  IF outcome = "ok" THEN pair ELSE DexDefaults

\* fetchTokenMetadata: `now` is read before the request is made.
fetchTokenMetadata(startedAt, dexData) ==
  [present |-> TRUE, liquidity |-> dexData.liquidity, volume24h |-> dexData.volume24h,
   tokenAge |-> dexData.tokenAge,
   priceHistory |-> << [price |-> dexData.price, timestamp |-> startedAt] >>,
   lastUpdated |-> startedAt]

\* getTokenMetadata's test on the cached entry.
MetadataFresh(cached) == cached.present /\ now - cached.lastUpdated < METADATA_CACHE_TTL

\* estimatePriceImpact(..) > percent, for an amount in tenths of a USDC:
\* 0 without liquidity, (amount / liquidity) * 100 capped at 100 otherwise.
priceImpactAbove(metadata, amountUsdc, percent) ==
  /\ metadata.liquidity # 0
  /\ IF amountUsdc * 100 >= 100 * metadata.liquidity * 10
     THEN 100 > percent
     ELSE amountUsdc * 100 > percent * metadata.liquidity * 10

\* The entries of a price history that are inside the 5 minute window.
RECURSIVE RecentPrices(_, _)
RecentPrices(history, cutoff) ==
  IF history = <<>> THEN <<>>
  ELSE IF Head(history).timestamp >= cutoff
  THEN <<Head(history)>> \o RecentPrices(Tail(history), cutoff)
  ELSE RecentPrices(Tail(history), cutoff)

\* detectRecentPump(..) > percent, for percent >= 0.
recentPumpAbove(metadata, percent) ==
  LET recentPrices == RecentPrices(metadata.priceHistory, now - PRICE_HISTORY_WINDOW)
      oldestPrice == recentPrices[1].price
      newestPrice == recentPrices[Len(recentPrices)].price
  IN /\ Len(recentPrices) >= 2
     /\ oldestPrice # 0
     /\ newestPrice * 100 > oldestPrice * (100 + percent)

\* The checks of shouldCopyTrade on the metadata it obtained.  No statement
\* of its try block throws (fetchDexScreenerData catches its own errors), so
\* the catch that would answer filter_error has no path leading to it.
FilterChecks(metadata, amountUsdc) ==
  IF metadata.liquidity < filterConfig.minLiquidityUsdc
  THEN [allowed |-> FALSE, reason |-> "Low liquidity"]
  ELSE IF metadata.tokenAge < filterConfig.minTokenAgeSeconds
  THEN [allowed |-> FALSE, reason |-> "Token too new"]
  ELSE IF metadata.volume24h < filterConfig.min24hVolumeUsdc
  THEN [allowed |-> FALSE, reason |-> "Low 24h volume"]
  ELSE IF priceImpactAbove(metadata, amountUsdc, filterConfig.maxPriceImpactPercent)
  THEN [allowed |-> FALSE, reason |-> "High price impact"]
  ELSE IF recentPumpAbove(metadata, filterConfig.maxRecentPumpPercent)
  THEN [allowed |-> FALSE, reason |-> "Already pumped"]
  ELSE [allowed |-> TRUE, reason |-> "none"]

\* shouldCopyTrade is called: answered at once when the filter is disabled,
\* the token whitelisted or its metadata cached and fresh; otherwise the
\* metadata is fetched.
ShouldCopyTrade(f, tokenMint) ==
  /\ fcall[f].pc = "idle"
  /\ IF ~filterConfig.enabled
     THEN fcall' = [fcall EXCEPT ![f] =
            [IdleCall EXCEPT !.pc = "done", !.tokenMint = tokenMint, !.allowed = TRUE]]
     ELSE IF tokenMint \in filterConfig.whitelist
     THEN fcall' = [fcall EXCEPT ![f] =
            [IdleCall EXCEPT !.pc = "done", !.tokenMint = tokenMint, !.allowed = TRUE,
                             !.reason = "whitelisted"]]
     ELSE IF MetadataFresh(metadataCache[tokenMint])
     THEN LET result == FilterChecks(metadataCache[tokenMint], tradeAmountUsdc)
          IN fcall' = [fcall EXCEPT ![f] =
               [IdleCall EXCEPT !.pc = "done", !.tokenMint = tokenMint,
                                !.allowed = result.allowed, !.reason = result.reason]]
     ELSE fcall' = [fcall EXCEPT ![f] =
            [IdleCall EXCEPT !.pc = "fetch", !.tokenMint = tokenMint, !.startedAt = now]]
  /\ UNCHANGED <<filterConfig, metadataCache, refreshing, timeVars, positions,
                 nonFilterVars>>

\* The DexScreener request of a call ends: the metadata is cached and the
\* checks run on it.
MetadataFetched(f, outcome, pair) ==
  /\ fcall[f].pc = "fetch"
  /\ LET metadata == fetchTokenMetadata(fcall[f].startedAt,
                                        fetchDexScreenerData(outcome, pair))
         result == FilterChecks(metadata, tradeAmountUsdc)
     IN /\ metadataCache' = [metadataCache EXCEPT ![fcall[f].tokenMint] = metadata]
        /\ fcall' = [fcall EXCEPT ![f].pc = "done", ![f].fetched = outcome,
                                  ![f].allowed = result.allowed,
                                  ![f].reason = result.reason]
  /\ UNCHANGED <<filterConfig, refreshing, timeVars, positions, nonFilterVars>>

\* updatePriceHistory: append the price and drop what left the window.
updatePriceHistory(tokenMint, price) ==
  /\ metadataCache[tokenMint].present
  /\ Len(metadataCache[tokenMint].priceHistory) < MaxPriceHistory
  /\ metadataCache' = [metadataCache EXCEPT ![tokenMint].priceHistory =
        RecentPrices(Append(@, [price |-> price, timestamp |-> now]),
                     now - PRICE_HISTORY_WINDOW)]
  /\ UNCHANGED <<filterConfig, fcall, refreshing, timeVars, positions, nonFilterVars>>

\* refreshStaleMetadata: start a fetch for every stale cache entry.
refreshStaleMetadata ==
  LET tokensToRefresh ==
        {m \in Mints : /\ metadataCache[m].present
                       /\ now - metadataCache[m].lastUpdated >= METADATA_CACHE_TTL
                       /\ ~refreshing[m].active}
  IN /\ filterConfig.enabled
     /\ tokensToRefresh # {}
     /\ refreshing' = [m \in Mints |->
           IF m \in tokensToRefresh THEN [active |-> TRUE, startedAt |-> now]
           ELSE refreshing[m]]
     /\ UNCHANGED <<filterConfig, fcall, metadataCache, timeVars, positions,
                    nonFilterVars>>

\* A background fetch ends: its metadata replaces the cache entry.
RefreshFetched(m, outcome, pair) ==
  /\ refreshing[m].active
  /\ refreshing' = [refreshing EXCEPT ![m] = [active |-> FALSE, startedAt |-> 0]]
  /\ metadataCache' = [metadataCache EXCEPT ![m] =
        fetchTokenMetadata(refreshing[m].startedAt, fetchDexScreenerData(outcome, pair))]
  /\ UNCHANGED <<filterConfig, fcall, timeVars, positions, nonFilterVars>>

TickFilter ==
  /\ \E d \in FilterTickSteps : Tick(d, MaxFilterTicks)
  /\ UNCHANGED <<positions, filterVars, nonFilterVars>>

---------------------------------------------------------------------------
(***************************************************************************)
(* TradeAnalyzer                                                           *)
(***************************************************************************)
NoParsed ==
  [present |-> FALSE, owner |-> "none", usdcDelta |-> 0, tokenMint |-> "m1",
   tokenDeltaRaw |-> 0]
NoDetectedTrade ==
  [present |-> FALSE, signature |-> "none", direction |-> "buy", tokenMint |-> "m1",
   usdcAmount |-> 0, tokenAmount |-> 0, userAddress |-> "none", aggregator |-> "unknown"]
NoDecodedTx ==
  [signature |-> "none", isVersioned |-> FALSE, accountKeys |-> <<>>,
   lookups |-> <<>>, instructions |-> <<>>]
IdleAnalysis ==
  [pc |-> "idle", tx |-> NoDecodedTx, li |-> 0, fullKeys |-> <<>>, wakeAt |-> 0,
   watchedAtCheck |-> {}, userAddress |-> "none", aggregator |-> "unknown",
   trade |-> NoDetectedTrade]

Abs(x) == IF x < 0 THEN -x ELSE x

\* The addresses a lookup adds: the table's entries at the writable, then at
\* the readonly indexes, skipping indexes the table does not have.
RECURSIVE AddressesAt(_, _)
AddressesAt(addresses, indexes) ==
  IF indexes = <<>> THEN <<>>
  ELSE (IF Head(indexes) \in DOMAIN addresses
        THEN <<addresses[Head(indexes)]>> ELSE <<>>)
       \o AddressesAt(addresses, Tail(indexes))

\* A variant of LookupKeys that puts the readonly addresses first.
LookupKeysReadonlyFirst(lookup, addresses) ==
  AddressesAt(addresses, lookup.readonlyIndexes)
    \o AddressesAt(addresses, lookup.writableIndexes)

LookupKeys(lookup, addresses) ==
  AddressesAt(addresses, lookup.writableIndexes)
    \o AddressesAt(addresses, lookup.readonlyIndexes)

\* A search that answers with the last tracked key instead of the first.
findLastTrackedUser(accountKeys) ==
  LET hits == {i \in DOMAIN accountKeys : accountKeys[i] \in trackedUsers}
  IN IF hits = {} THEN "none"
     ELSE accountKeys[CHOOSE i \in hits : \A j \in hits : i >= j]

\* findTrackedUserFromKeys: the first key that is tracked, "none" for null.
findTrackedUserFromKeys(accountKeys) ==
  LET hits == {i \in DOMAIN accountKeys : accountKeys[i] \in trackedUsers}
  IN IF hits = {} THEN "none"
     ELSE accountKeys[CHOOSE i \in hits : \A j \in hits : i <= j]

\* getInstructions: the program id of an instruction is the key at its index
\* ('' when the index is beyond the keys).
getInstructions(tx, accountKeys) ==
  [k \in DOMAIN tx.instructions |->
     [programId |-> IF tx.instructions[k].programIdIndex \in DOMAIN accountKeys
                    THEN accountKeys[tx.instructions[k].programIdIndex] ELSE "",
      data |-> tx.instructions[k].data]]

\* A variant of matchesDiscriminator that compares one byte fewer.
matchesDiscriminatorShort(data, discriminators) ==
  IF Len(data) < DISCRIMINATOR_BYTES THEN FALSE
  ELSE \E discriminator \in discriminators :
          \A i \in 1 .. DISCRIMINATOR_BYTES - 1 : data[i] = discriminator[i]

\* matchesDiscriminator: the data has 8 bytes or more and its first 8 bytes
\* are those of one of the discriminators.
matchesDiscriminator(data, discriminators) ==
  IF Len(data) < DISCRIMINATOR_BYTES THEN FALSE
  ELSE \E discriminator \in discriminators :
          \A i \in 1 .. DISCRIMINATOR_BYTES : data[i] = discriminator[i]

isDFlowSwapInstruction(data) == matchesDiscriminator(data, DFLOW_SWAP_DISCRIMINATORS)
isOkxSwapInstruction(data) == matchesDiscriminator(data, OKX_SWAP_DISCRIMINATORS)

\* identifyAggregatorFromInstructions: the first instruction that is a swap
\* of the program it calls decides.
RECURSIVE identifyAggregatorFromInstructions(_)
identifyAggregatorFromInstructions(instructions) ==
  IF instructions = <<>> THEN "unknown"
  ELSE LET ix == Head(instructions)
       IN IF /\ ix.programId = OKX_PROGRAM_ID /\ Len(ix.data) >= DISCRIMINATOR_BYTES
             /\ isOkxSwapInstruction(ix.data)
          THEN "okx"
          ELSE IF /\ ix.programId = DFLOW_PROGRAM_ID /\ Len(ix.data) >= DISCRIMINATOR_BYTES
                  /\ isDFlowSwapInstruction(ix.data)
          THEN "dflow"
          ELSE identifyAggregatorFromInstructions(Tail(instructions))

\* parseTradeDetailsFromBalanceDeltas on the answer of getParsedTransaction:
\* no trade without the transaction, without deltas of the user, or without
\* a USDC and another token's delta.
parseTradeDetailsFromBalanceDeltas(tx, aggregator, userAddress, parsed) ==
  IF ~parsed.present \/ parsed.owner # userAddress
       \/ parsed.usdcDelta = 0 \/ parsed.tokenDeltaRaw = 0
  THEN NoDetectedTrade
  ELSE [present |-> TRUE, signature |-> tx.signature,
        direction |-> IF parsed.usdcDelta > 0 THEN "sell" ELSE "buy",
        tokenMint |-> parsed.tokenMint,
        usdcAmount |-> Abs(parsed.usdcDelta),
        tokenAmount |-> Abs(parsed.tokenDeltaRaw),
        userAddress |-> userAddress, aggregator |-> aggregator]

\* analyzeTransaction after the keys are resolved, up to the await of
\* getParsedTransaction: the tracked user, else return unless nobody is
\* tracked; the aggregator, else return.
CheckAndParse(rec) ==
  LET userAddress == findTrackedUserFromKeys(rec.fullKeys)
      keysToUse == IF Len(rec.fullKeys) > Len(rec.tx.accountKeys)
                   THEN rec.fullKeys ELSE rec.tx.accountKeys
      aggregator == identifyAggregatorFromInstructions(getInstructions(rec.tx, keysToUse))
      checked == [rec EXCEPT !.watchedAtCheck = trackedUsers]
  IN IF userAddress = "none" /\ Cardinality(trackedUsers) > 0
     THEN [checked EXCEPT !.pc = "done"]
     ELSE IF aggregator = "unknown"
     THEN [checked EXCEPT !.pc = "done"]
     ELSE [checked EXCEPT !.pc = "parse", !.aggregator = aggregator,
             !.userAddress = IF userAddress # "none" THEN userAddress
                             ELSE rec.tx.accountKeys[1]]

\* resolveAccountKeys from lookup rec.li on, up to a table that is not
\* cached (wait for the rate limit, or fetch it), then the rest of
\* analyzeTransaction.
RECURSIVE ResolveFrom(_, _)
ResolveFrom(rec, cache) ==
  IF rec.li > Len(rec.tx.lookups)
  THEN CheckAndParse(rec)
  ELSE LET lookup == rec.tx.lookups[rec.li]
       IN IF cache[lookup.accountKey].present
          THEN ResolveFrom([rec EXCEPT !.li = @ + 1,
                 !.fullKeys = @ \o LookupKeys(lookup, cache[lookup.accountKey].addresses)],
                 cache)
          ELSE IF now - lastRpcCall < RPC_MIN_INTERVAL
          THEN [rec EXCEPT !.pc = "sleep", !.wakeAt = lastRpcCall + RPC_MIN_INTERVAL]
          ELSE [rec EXCEPT !.pc = "fetchTable"]

\* lastRpcCall = Date.now() when the segment ends at the RPC call.
NoteRpcCall(rec) ==
  lastRpcCall' = IF rec.pc = "fetchTable" THEN now ELSE lastRpcCall

\* analyzeTransaction is called with a decoded transaction.
AnalyzeTransaction(a, tx) ==
  /\ analysis[a].pc = "idle"
  /\ LET rec == [IdleAnalysis EXCEPT !.tx = tx, !.fullKeys = tx.accountKeys, !.li = 1]
         r == IF \E i \in DOMAIN tx.accountKeys : tx.accountKeys[i] = VOTE_PROGRAM_ID
              THEN [rec EXCEPT !.pc = "done"]
              ELSE IF tx.isVersioned THEN ResolveFrom(rec, lookupTableCache)
              ELSE CheckAndParse(rec)
     IN /\ analysis' = [analysis EXCEPT ![a] = r]
        /\ NoteRpcCall(r)
  /\ UNCHANGED <<trackedUsers, lookupTableCache, emitCount, timeVars, positions,
                 nonAnalyzerVars>>

\* The rate-limit wait of resolveAccountKeys is over: the timeout set for
\* 500 - (now - lastRpcCall) ms, both as they were when it was set, has
\* fired.
SleepDone(a) ==
  /\ analysis[a].pc = "sleep"
  /\ now >= analysis[a].wakeAt
  /\ analysis' = [analysis EXCEPT ![a].pc = "fetchTable"]
  /\ lastRpcCall' = now
  /\ UNCHANGED <<trackedUsers, lookupTableCache, emitCount, timeVars, positions,
                 nonAnalyzerVars>>

\* await getAddressLookupTable(..) returns: the table ("ok"), no value
\* ("null") or an error; an error or a missing table skips the lookup.
TableFetched(a, outcome) ==
  /\ analysis[a].pc = "fetchTable"
  /\ LET rec == analysis[a]
         lookup == rec.tx.lookups[rec.li]
         addresses == TableAddresses[lookup.accountKey]
         next == IF outcome = "ok"
                 THEN [rec EXCEPT !.li = @ + 1,
                                  !.fullKeys = @ \o LookupKeys(lookup, addresses)]
                 ELSE [rec EXCEPT !.li = @ + 1]
         cache == IF outcome = "ok"
                  THEN [lookupTableCache EXCEPT ![lookup.accountKey] =
                          [present |-> TRUE, addresses |-> addresses]]
                  ELSE lookupTableCache
         r == ResolveFrom(next, cache)
     IN /\ lookupTableCache' = cache
        /\ analysis' = [analysis EXCEPT ![a] = r]
        /\ NoteRpcCall(r)
  /\ UNCHANGED <<trackedUsers, emitCount, timeVars, positions, nonAnalyzerVars>>

\* await getParsedTransaction(..) returns: the trade, if there is one, is
\* emitted.
ParsedFetched(a, parsed) ==
  /\ analysis[a].pc = "parse"
  /\ LET rec == analysis[a]
         detected == parseTradeDetailsFromBalanceDeltas(rec.tx, rec.aggregator,
                                                        rec.userAddress, parsed)
     IN /\ analysis' = [analysis EXCEPT ![a].pc = "done", ![a].trade = detected]
        /\ emitCount' =
             IF detected.present
             THEN [emitCount EXCEPT ![<<detected.signature, detected.userAddress>>] = @ + 1]
             ELSE emitCount
  /\ UNCHANGED <<trackedUsers, lookupTableCache, lastRpcCall, timeVars, positions,
                 nonAnalyzerVars>>

addTrackedUser(address) ==
  /\ address \notin trackedUsers
  /\ trackedUsers' = trackedUsers \cup {address}
  /\ UNCHANGED <<lookupTableCache, lastRpcCall, analysis, emitCount, timeVars,
                 positions, nonAnalyzerVars>>

removeTrackedUser(address) ==
  /\ address \in trackedUsers
  /\ trackedUsers' = trackedUsers \ {address}
  /\ UNCHANGED <<lookupTableCache, lastRpcCall, analysis, emitCount, timeVars,
                 positions, nonAnalyzerVars>>

TickAnalyzer ==
  /\ \E d \in AnalyzerTickSteps : Tick(d, MaxAnalyzerTicks)
  /\ UNCHANGED <<positions, analyzerVars, nonAnalyzerVars>>

\* Instruction data for the classifier: every discriminator alone and with
\* a payload after it, discriminators with the last or the first byte
\* changed, a discriminator cut to 7 bytes, and no data.
WithPayload(d) == d \o <<7, 0>>
LastByteChanged(d) == [d EXCEPT ![DISCRIMINATOR_BYTES] = (@ + 1) % 256]
FirstByteChanged(d) == [d EXCEPT ![1] = (@ + 1) % 256]
ClassifyData ==
  LET all == OKX_SWAP_DISCRIMINATORS \cup DFLOW_SWAP_DISCRIMINATORS
      some == { <<248, 198, 158, 145, 225, 117, 135, 200>>,
                <<63, 114, 246, 131, 51, 2, 247, 29>>,
                <<222, 100, 184, 146, 186, 196, 105, 165>> }
  IN all \cup {WithPayload(d) : d \in some}
         \cup {LastByteChanged(d) : d \in some}
         \cup {FirstByteChanged(d) : d \in some}
         \cup {SubSeq(d, 1, DISCRIMINATOR_BYTES - 1) : d \in some}
         \cup {<<>>}
ClassifyPrograms == {OKX_PROGRAM_ID, DFLOW_PROGRAM_ID, "other"}
ClassifyInstructions == [programId : ClassifyPrograms, data : ClassifyData]
ClassifyInputs ==
  UNION {[1 .. n -> ClassifyInstructions] : n \in 0 .. MaxInstructions}

\* identifyAggregatorFromInstructions is applied to the instruction list.
Classify ==
  /\ ~classify.done
  /\ classify' = [classify EXCEPT !.done = TRUE,
        !.aggregator = identifyAggregatorFromInstructions(classify.instructions)]
  /\ UNCHANGED <<pipelineVars, coreAuxVars, nonClassifyVars>>

---------------------------------------------------------------------------
(***************************************************************************)
(* JupiterExecutor: sending a signed transaction (RPC alone, or the Jito   *)
(* bundle and the RPC send in parallel)                                    *)
(***************************************************************************)
IdleSubmit ==
  [pc |-> "idle", tx |-> "none", jito |-> "none", rpc |-> "none",
   result |-> "none", error |-> "none"]

\* initJito: one getTipAccounts answer (delays is the history of the backoff
\* delays waited).  Success stores the tip accounts; a
\* failure retries (after the backoff) up to JITO_MAX_RETRIES attempts, and
\* the last failure turns useJito off.
InitJitoResolved(ok) ==
  /\ jito.useJito /\ ~jito.ready /\ jito.attempt <= JITO_MAX_RETRIES
  /\ jito' = IF ok THEN [jito EXCEPT !.ready = TRUE]
             ELSE IF jito.attempt < JITO_MAX_RETRIES
             THEN [jito EXCEPT !.attempt = @ + 1,
                               !.delays = Append(@, JITO_BASE_DELAY * 2 ^ (jito.attempt - 1))]
             ELSE [jito EXCEPT !.useJito = FALSE, !.attempt = @ + 1]
  /\ UNCHANGED <<pipelineVars, quoteCalls, extraVars, submits, frameVars, deltaVars, ledgerVars>>

\* executeSwap / sendPreBuiltTransaction: sendViaJito when Jito is ready,
\* connection.sendTransaction otherwise.  sendViaJito reads the signature
\* from the transaction and awaits getLatestBlockhash for the tip.
SendTransaction(u, tx) ==
  /\ submits[u].pc = "idle"
  /\ submits' = [submits EXCEPT ![u] =
       IF jito.useJito /\ jito.ready
       THEN [IdleSubmit EXCEPT !.pc = "blockhash", !.tx = tx]
       ELSE [IdleSubmit EXCEPT !.pc = "rpcOnly", !.tx = tx, !.rpc = "pending"]]
  /\ UNCHANGED <<pipelineVars, quoteCalls, extraVars, jito, frameVars, deltaVars, ledgerVars>>

\* sendViaJito after `await getLatestBlockhash`: a rejection propagates; a
\* bundle that cannot take the tip falls back to the RPC send; otherwise the
\* bundle and the RPC send are both dispatched.
BlockhashResolved(u, ok, bundleOk) ==
  /\ submits[u].pc = "blockhash"
  /\ submits' = [submits EXCEPT ![u] =
       IF ~ok THEN [@ EXCEPT !.pc = "done", !.result = "error", !.error = "blockhash"]
       ELSE IF ~bundleOk THEN [@ EXCEPT !.pc = "rpcOnly", !.rpc = "pending"]
       ELSE [@ EXCEPT !.pc = "race", !.jito = "pending", !.rpc = "pending"]]
  /\ UNCHANGED <<pipelineVars, quoteCalls, extraVars, jito, frameVars, deltaVars, ledgerVars>>

RpcOnlyResolved(u, ok) ==
  /\ submits[u].pc = "rpcOnly"
  /\ submits' = [submits EXCEPT ![u] =
       IF ok THEN [@ EXCEPT !.pc = "done", !.rpc = "ok", !.result = submits[u].tx]
       ELSE [@ EXCEPT !.pc = "done", !.rpc = "fail", !.result = "error", !.error = "rpc"]]
  /\ UNCHANGED <<pipelineVars, quoteCalls, extraVars, jito, frameVars, deltaVars, ledgerVars>>

\* `await Promise.allSettled([jitoPromise, rpcPromise])`: the continuation
\* runs when both have settled; it throws the RPC error when neither
\* succeeded and returns the signature otherwise.
AfterSettle(sub) ==
  IF sub.jito = "pending" \/ sub.rpc = "pending" THEN sub
  ELSE IF sub.jito = "ok" \/ sub.rpc = "ok"
  THEN [sub EXCEPT !.pc = "done", !.result = sub.tx]
  ELSE [sub EXCEPT !.pc = "done", !.result = "error", !.error = "rpc"]

JitoSettled(u, ok) ==
  /\ submits[u].pc = "race" /\ submits[u].jito = "pending"
  /\ submits' = [submits EXCEPT ![u] =
       AfterSettle([@ EXCEPT !.jito = IF ok THEN "ok" ELSE "fail"])]
  /\ UNCHANGED <<pipelineVars, quoteCalls, extraVars, jito, frameVars, deltaVars, ledgerVars>>

RpcSettled(u, ok) ==
  /\ submits[u].pc = "race" /\ submits[u].rpc = "pending"
  /\ submits' = [submits EXCEPT ![u] =
       AfterSettle([@ EXCEPT !.rpc = IF ok THEN "ok" ELSE "fail"])]
  /\ UNCHANGED <<pipelineVars, quoteCalls, extraVars, jito, frameVars, deltaVars, ledgerVars>>

---------------------------------------------------------------------------
(***************************************************************************)
(* TransactionProcessor.processEntry and deserializeEntries                *)
(***************************************************************************)
NoFrame == [slot |-> 0, entries |-> [header |-> FALSE, count |-> 0, ents |-> <<>>]]
NoEntries == [ok |-> TRUE, entries |-> <<>>]

RECURSIVE SumAvail(_, _)
SumAvail(txs, t) ==
  IF t > Len(txs) THEN 0 ELSE txs[t].avail + SumAvail(txs, t + 1)

RECURSIVE EntriesLength(_, _)
EntriesLength(ents, i) ==
  IF i > Len(ents) THEN 0
  ELSE U64_BYTES + HASH_BYTES + U64_BYTES + SumAvail(ents[i].txs, 1)
       + EntriesLength(ents, i + 1)

\* entriesBytes.length
PayloadLength(payload) ==
  IF payload.header THEN U64_BYTES + EntriesLength(payload.ents, 1) ELSE 0

\* measureTransactionSize on the bytes at a transaction's place: the size of
\* the wire form, which may run past the end of the buffer, or 0.
measureTransactionSize(tx) == tx.wire

\* The inner loop of deserializeEntries: stops at the end of the payload and
\* at a transaction that measures 0; a slice is cut at the payload's end.
RECURSIVE ReadTransactions(_, _, _, _, _, _)
ReadTransactions(length, txs, t, txCount, offset, transactions) ==
  IF t > txCount \/ offset >= length \/ t > Len(txs)
  THEN [offset |-> offset, transactions |-> transactions]
  ELSE LET txSize == measureTransactionSize(txs[t])
           sliceLen == IF offset + txSize > length THEN length - offset ELSE txSize
       IN IF txSize = 0
          THEN [offset |-> offset, transactions |-> transactions]
          ELSE ReadTransactions(length, txs, t + 1, txCount, offset + txSize,
                                Append(transactions, sliceLen))

\* The outer loop: an entry whose transaction count cannot be read throws;
\* `declared` keeps the entry's tx_count next to the transactions read.
RECURSIVE ReadEntries(_, _, _, _)
ReadEntries(payload, i, offset, entries) ==
  IF i > payload.count THEN [ok |-> TRUE, entries |-> entries]
  ELSE IF offset + U64_BYTES + HASH_BYTES + U64_BYTES > PayloadLength(payload)
          \/ i > Len(payload.ents)
  THEN [ok |-> FALSE, entries |-> <<>>]
  ELSE LET e == payload.ents[i]
           start == offset + U64_BYTES + HASH_BYTES + U64_BYTES
           r == ReadTransactions(PayloadLength(payload), e.txs, 1, e.txCount,
                                 start, <<>>)
       IN ReadEntries(payload, i + 1, r.offset,
                      Append(entries, [numHashes |-> e.numHashes,
                                       declared |-> e.txCount,
                                       transactions |-> r.transactions]))

deserializeEntries(payload) == ReadEntries(payload, 1, U64_BYTES, <<>>)

\* processEntry: a payload of zero bytes is dropped; otherwise the entries
\* are deserialized (an error is caught and emitted).
ProcessEntry(slot, payload) ==
  /\ frame' = [slot |-> slot, entries |-> payload]
  /\ solanaEntries' = IF PayloadLength(payload) = 0 THEN NoEntries
                      ELSE deserializeEntries(payload)
  /\ UNCHANGED <<pipelineVars, quoteCalls, extraVars, submitVars, deltaVars, ledgerVars>>

---------------------------------------------------------------------------
(***************************************************************************)
(* TradeAnalyzer.extractTokenBalanceDeltas                                 *)
(***************************************************************************)
NoDeltas == [done |-> FALSE, list |-> <<>>]
EmptyBalanceMap ==
  [keys |-> <<>>, val |-> [m \in Mints \cup {USDC_MINT} |-> [rawDelta |-> 0, decimals |-> 0]]]

RECURSIVE Pow10(_)
Pow10(n) == IF n = 0 THEN 1 ELSE 10 * Pow10(n - 1)

HasKey(bm, mint) == \E i \in 1 .. Len(bm.keys) : bm.keys[i] = mint

\* Map.set: a new key is appended in insertion order, an old one replaced.
MapSet(bm, mint, v) ==
  [keys |-> IF HasKey(bm, mint) THEN bm.keys ELSE Append(bm.keys, mint),
   val |-> [bm.val EXCEPT ![mint] = v]]

\* The loop over the pre balances: each of the user's entries SETS the
\* mint's entry to minus its raw amount.
RECURSIVE SubtractPre(_, _, _, _)
SubtractPre(bm, pre, i, userAddress) ==
  IF i > Len(pre) THEN bm
  ELSE SubtractPre(
         IF pre[i].owner = userAddress
         THEN MapSet(bm, pre[i].mint,
                     [rawDelta |-> 0 - pre[i].amount, decimals |-> pre[i].decimals])
         ELSE bm,
         pre, i + 1, userAddress)

\* The loop over the post balances: each of the user's entries adds its raw
\* amount to the mint's entry (0 when the mint has none).
RECURSIVE AddPost(_, _, _, _)
AddPost(bm, post, i, userAddress) ==
  IF i > Len(post) THEN bm
  ELSE AddPost(
         IF post[i].owner = userAddress
         THEN LET current == IF HasKey(bm, post[i].mint) THEN bm.val[post[i].mint]
                             ELSE [rawDelta |-> 0, decimals |-> post[i].decimals]
              IN MapSet(bm, post[i].mint,
                        [rawDelta |-> current.rawDelta + post[i].amount,
                         decimals |-> IF post[i].decimals # 0 THEN post[i].decimals
                                      ELSE current.decimals])
         ELSE bm,
         post, i + 1, userAddress)

\* Math.abs(delta) > 0.000001 with delta = rawDelta / 10^decimals, that is
\* |rawDelta| * 10^6 > 10^decimals.
DeltaKept(data) ==
  IF data.decimals >= 6 THEN Abs(data.rawDelta) > Pow10(data.decimals - 6)
  ELSE Abs(data.rawDelta) > 0

RECURSIVE DeltaEntries(_, _)
DeltaEntries(bm, i) ==
  IF i > Len(bm.keys) THEN <<>>
  ELSE LET mint == bm.keys[i]
           rest == DeltaEntries(bm, i + 1)
       IN IF DeltaKept(bm.val[mint])
          THEN <<[mint |-> mint, deltaRaw |-> bm.val[mint].rawDelta,
                  decimals |-> bm.val[mint].decimals]>> \o rest
          ELSE rest

extractTokenBalanceDeltas(tx, userAddress) ==
  DeltaEntries(AddPost(SubtractPre(EmptyBalanceMap, tx.pre, 1, userAddress),
                       tx.post, 1, userAddress), 1)

\* parseTradeDetailsFromBalanceDeltas: the deltas of the fetched transaction.
ExtractDeltas ==
  /\ ~deltas.done
  /\ deltas' = [done |-> TRUE,
                list |-> extractTokenBalanceDeltas(parsedTx, parsedTx.userAddress)]
  /\ UNCHANGED <<pipelineVars, quoteCalls, extraVars, submitVars, frameVars, parsedTx, ledgerVars>>

---------------------------------------------------------------------------
InitTime == now = 0 /\ ticks = 0

InitLedger == positions = [m \in Mints |-> NoPosition]

Configs ==
  [copyBuysOnly : BOOLEAN, allowedTokens : {{}, {"m1"}},
   hasPM : BOOLEAN, hasFilter : BOOLEAN]

\* The configuration index.ts runs the engine with.
IndexConfig ==
  [copyBuysOnly |-> FALSE, allowedTokens |-> {}, hasPM |-> TRUE, hasFilter |-> TRUE]

InitCopy ==
  /\ pc = [p \in Procs |-> "idle"]
  /\ trade = [p \in Procs |-> NoTrade]
  /\ held = [p \in Procs |-> NoTx]
  /\ quote = [p \in Procs |-> NoQuote]
  /\ events = [p \in Procs |-> <<>>]
  /\ skipReason = [p \in Procs |-> "none"]
  /\ recorded = [p \in Procs |-> [op |-> "none", tokenAmount |-> 0]]
  /\ dupAtInvoke = [p \in Procs |-> FALSE]
  /\ txLookup = [p \in Procs |-> NoLookup]
  /\ pendingCopies = {}
  /\ txCache = [m \in Mints |-> NoTx]
  /\ nextTxId = 1
  /\ building = [m \in Mints |-> IF m \in config.allowedTokens THEN 1 ELSE 0]
  /\ quoteCache = [k \in QuoteKeys |-> NoQuote]

DefaultStrategy == CHOOSE st \in Strategies : st.trailingStopPercent = 0

InitExit ==
  /\ checkInterval = FALSE
  /\ lastFire = 0
  /\ exitStates = [m \in Mints |-> NoExitState]
  /\ cycle = [c \in Cycles |-> IdleCycle]
  /\ bought = [m \in Mints |-> 0]
  /\ exitSold = [m \in Mints |-> 0]
  /\ fullExit = [m \in Mints |-> FALSE]
  /\ tpSells = [m \in Mints |-> [i \in 1 .. Len(DefaultStrategy.takeProfitTargets) |-> 0]]
  /\ trail = [m \in Mints |-> NoTrail]

\* The filter configurations: the defaults of index.ts; the same with an
\* allowed token (the whitelist), also without a liquidity floor, and disabled.
IndexFilterConfig ==
  [enabled |-> TRUE, minLiquidityUsdc |-> 50000, maxPriceImpactPercent |-> 2,
   minTokenAgeSeconds |-> 3600, min24hVolumeUsdc |-> 10000,
   maxRecentPumpPercent |-> 50, whitelist |-> {}]
FilterConfigs ==
  { [IndexFilterConfig EXCEPT !.whitelist = {"m2"}],
    [IndexFilterConfig EXCEPT !.whitelist = {"m2"}, !.minLiquidityUsdc = 0],
    [IndexFilterConfig EXCEPT !.whitelist = {"m2"}, !.enabled = FALSE] }

InitFilter ==
  /\ metadataCache = [m \in Mints |-> NoMetadata]
  /\ fcall = [f \in FilterCalls |-> IdleCall]
  /\ refreshing = [m \in Mints |-> [active |-> FALSE, startedAt |-> 0]]

\* Date.now() is far beyond the rate limit's 500 ms when the first lookup
\* table is fetched: no wait before the first RPC call.
InitAnalyzer ==
  /\ trackedUsers = {}
  /\ lookupTableCache = [t \in LookupTables |-> [present |-> FALSE, addresses |-> <<>>]]
  /\ lastRpcCall = 0 - RPC_MIN_INTERVAL
  /\ analysis = [a \in Analyses |-> IdleAnalysis]
  /\ emitCount = [k \in Signatures \X Addresses |-> 0]

\* index.ts leaves useJito off: no send goes through the bundle path.
InitSubmit ==
  /\ jito = [useJito |-> FALSE, ready |-> FALSE, attempt |-> 1, delays |-> <<>>]
  /\ submits = [u \in Submitters |-> IdleSubmit]

InitFrame == frame = NoFrame /\ solanaEntries = NoEntries

NoParsedTx == [pre |-> <<>>, post |-> <<>>, userAddress |-> "A"]
InitDeltas == parsedTx = NoParsedTx /\ deltas = NoDeltas

\* The limits of the documented test configuration, and the same with
\* the default minimum reserve of $10.
IndexLimits ==
  [maxPositionSizeUsdc |-> maxPositionSizeUsdc,
   maxTotalExposureUsdc |-> maxTotalExposureUsdc,
   maxOpenPositions |-> maxOpenPositions,
   minUsdcReserve |-> minUsdcReserve]
LedgerLimits == {IndexLimits, [IndexLimits EXCEPT !.minUsdcReserve = defaultMinUsdcReserve]}

InitRisk == limits = IndexLimits /\ riskCall = NoRiskCall /\ closedMints = {}

InitQuoteCalls == quoteCalls = [c \in QuoteCallers |-> IdleQuoteCall]

\* The client as index.ts constructs it.
InitStream ==
  /\ client = NewClient(indexMaxReconnectAttempts)
  /\ streams = [s \in StreamIds |-> NoStream]

\* ---- SubscriptionManager (api/subscription-manager.ts) ----
SubClients == {"c1", "c2"}
SubAddresses == {"A", "B"}

\* Map.set and Map.delete on a function whose domain is the map's keys.
SubsMapSet(map, k, v) == [x \in DOMAIN map \cup {k} |-> IF x = k THEN v ELSE map[x]]
SubsMapDelete(map, k) == [x \in DOMAIN map \ {k} |-> map[x]]
\* Set.add and Set.delete on a set kept in insertion order.
SeqHas(q, x) == \E i \in DOMAIN q : q[i] = x
SeqAdd(q, x) == IF SeqHas(q, x) THEN q ELSE Append(q, x)
SeqDelete(q, x) == SelectSeq(q, LAMBDA y : y # x)

\* A new SubscriptionManager: three empty collections; emitted is what the
\* call in progress has emitted.
NewManager ==
  [addressSubscriptions |-> <<>>, clientSubscriptions |-> <<>>,
   trackedAddresses |-> {}, emitted |-> <<>>]

\* subscribe(clientId, address)
subscribe(m, clientId, address) ==
  LET addressClients == IF address \in DOMAIN m.addressSubscriptions
                        THEN m.addressSubscriptions[address] ELSE {}
      clientAddresses == IF clientId \in DOMAIN m.clientSubscriptions
                         THEN m.clientSubscriptions[clientId] ELSE <<>>
      isNewAddress == address \notin m.trackedAddresses
  IN [addressSubscriptions |->
        SubsMapSet(m.addressSubscriptions, address, addressClients \cup {clientId}),
      clientSubscriptions |->
        SubsMapSet(m.clientSubscriptions, clientId, SeqAdd(clientAddresses, address)),
      trackedAddresses |-> m.trackedAddresses \cup {address},
      emitted |-> IF isNewAddress
                  THEN Append(m.emitted, <<"ADDRESS_ADDED", address>>)
                  ELSE m.emitted]

\* A variant of unsubscribe that reports the address as removed whenever the
\* address has an entry, whoever stays subscribed.
unsubscribeEager(m, clientId, address) ==
  LET hasAddress == address \in DOMAIN m.addressSubscriptions
      addressClients == IF hasAddress
                        THEN m.addressSubscriptions[address] \ {clientId} ELSE {}
      emptied == hasAddress /\ addressClients = {}
      hasClient == clientId \in DOMAIN m.clientSubscriptions
      clientAddresses == IF hasClient
                         THEN SeqDelete(m.clientSubscriptions[clientId], address)
                         ELSE <<>>
  IN [addressSubscriptions |->
        IF emptied THEN SubsMapDelete(m.addressSubscriptions, address)
        ELSE IF hasAddress THEN SubsMapSet(m.addressSubscriptions, address, addressClients)
        ELSE m.addressSubscriptions,
      clientSubscriptions |->
        IF ~hasClient THEN m.clientSubscriptions
        ELSE IF clientAddresses = <<>> THEN SubsMapDelete(m.clientSubscriptions, clientId)
        ELSE SubsMapSet(m.clientSubscriptions, clientId, clientAddresses),
      trackedAddresses |->
        IF emptied THEN m.trackedAddresses \ {address} ELSE m.trackedAddresses,
      emitted |-> IF hasAddress
                  THEN Append(m.emitted, <<"ADDRESS_REMOVED", address>>)
                  ELSE m.emitted]

\* unsubscribe(clientId, address)
unsubscribe(m, clientId, address) ==
  LET hasAddress == address \in DOMAIN m.addressSubscriptions
      addressClients == IF hasAddress
                        THEN m.addressSubscriptions[address] \ {clientId} ELSE {}
      emptied == hasAddress /\ addressClients = {}
      hasClient == clientId \in DOMAIN m.clientSubscriptions
      clientAddresses == IF hasClient
                         THEN SeqDelete(m.clientSubscriptions[clientId], address)
                         ELSE <<>>
  IN [addressSubscriptions |->
        IF emptied THEN SubsMapDelete(m.addressSubscriptions, address)
        ELSE IF hasAddress THEN SubsMapSet(m.addressSubscriptions, address, addressClients)
        ELSE m.addressSubscriptions,
      clientSubscriptions |->
        IF ~hasClient THEN m.clientSubscriptions
        ELSE IF clientAddresses = <<>> THEN SubsMapDelete(m.clientSubscriptions, clientId)
        ELSE SubsMapSet(m.clientSubscriptions, clientId, clientAddresses),
      trackedAddresses |->
        IF emptied THEN m.trackedAddresses \ {address} ELSE m.trackedAddresses,
      emitted |-> IF emptied
                  THEN Append(m.emitted, <<"ADDRESS_REMOVED", address>>)
                  ELSE m.emitted]

\* removeClient(clientId): unsubscribe from every address of the client, in
\* the order they were subscribed, then drop the client's entry.
RECURSIVE unsubscribeAll(_, _, _)
unsubscribeAll(m, clientId, addresses) ==
  IF addresses = <<>> THEN m
  ELSE unsubscribeAll(unsubscribe(m, clientId, Head(addresses)), clientId, Tail(addresses))
\* A variant of removeClient that drops the client's entry only.
removeClientEntryOnly(m, clientId) ==
  [m EXCEPT !.clientSubscriptions = SubsMapDelete(@, clientId)]

removeClient(m, clientId) ==
  LET after == IF clientId \in DOMAIN m.clientSubscriptions
               THEN unsubscribeAll(m, clientId, m.clientSubscriptions[clientId])
               ELSE m
  IN [after EXCEPT !.clientSubscriptions = SubsMapDelete(@, clientId)]

\* The number of clients subscribed to an address.
SubscriberCount(m, address) ==
  IF address \in DOMAIN m.addressSubscriptions
  THEN Cardinality(m.addressSubscriptions[address]) ELSE 0

\* subs: the manager, the number of calls made, the last call and the
\* subscriber counts before it.
NewSubscriptions ==
  [manager |-> NewManager, calls |-> 0, op |-> "none", clientId |-> "none",
   address |-> "none", before |-> [a \in SubAddresses |-> 0]]
Called(m, op, clientId, address) ==
  [manager |-> m, calls |-> subs.calls + 1, op |-> op, clientId |-> clientId,
   address |-> address,
   before |-> [a \in SubAddresses |-> SubscriberCount(subs.manager, a)]]
Cleared == [subs.manager EXCEPT !.emitted = <<>>]

Subscribe(clientId, address) ==
  /\ subs.calls < MaxSubCalls
  /\ subs' = Called(subscribe(Cleared, clientId, address), "subscribe", clientId, address)
  /\ UNCHANGED <<pipelineVars, coreAuxVars, nonSubsVars>>

Unsubscribe(clientId, address) ==
  /\ subs.calls < MaxSubCalls
  /\ subs' = Called(unsubscribe(Cleared, clientId, address), "unsubscribe", clientId, address)
  /\ UNCHANGED <<pipelineVars, coreAuxVars, nonSubsVars>>

RemoveClient(clientId) ==
  /\ subs.calls < MaxSubCalls
  /\ subs' = Called(removeClient(Cleared, clientId), "removeClient", clientId, "none")
  /\ UNCHANGED <<pipelineVars, coreAuxVars, nonSubsVars>>

\* ---- measureTransactionSize (utils/solana-tx.ts, utils/binary.ts) ----
SIGNATURE_BYTES == 64
MAX_SIGNATURES == 64
PUBKEY_BYTES == 32
MESSAGE_HEADER_BYTES == 3
VERSION_PREFIX == 128

\* buffer[offset] for an offset inside the buffer (offsets start at 0).
ByteAt(buffer, offset) == buffer[offset + 1]

\* readCompactU16: <<value, bytesConsumed>>, <<0, 0>> when a byte is missing.
readCompactU16(buffer, offset) ==
  IF offset >= Len(buffer) THEN <<0, 0>>
  ELSE LET byte1 == ByteAt(buffer, offset)
       IN IF byte1 < 128 THEN <<byte1, 1>>
          ELSE IF offset + 1 >= Len(buffer) THEN <<0, 0>>
          ELSE LET byte2 == ByteAt(buffer, offset + 1)
               IN IF byte2 < 128 THEN <<(byte1 % 128) + byte2 * 128, 2>>
                  ELSE IF offset + 2 >= Len(buffer) THEN <<0, 0>>
                  ELSE LET byte3 == ByteAt(buffer, offset + 2)
                       IN <<(byte1 % 128) + (byte2 % 128) * 128 + byte3 * 16384, 3>>

\* The instruction loop from instruction i on: the offset after the last
\* instruction, or -1 where the code returns 0.
RECURSIVE SkipInstructions(_, _, _, _)
SkipInstructions(buffer, offset, i, numInstructions) ==
  IF i >= numInstructions THEN offset
  ELSE IF offset >= Len(buffer) THEN -1
  ELSE LET accounts == readCompactU16(buffer, offset + 1)
           afterAccounts == offset + 1 + accounts[2] + accounts[1]
           data == readCompactU16(buffer, afterAccounts)
       IN SkipInstructions(buffer, afterAccounts + data[2] + data[1], i + 1,
                           numInstructions)

\* The address table lookup loop, likewise.
RECURSIVE SkipLookups(_, _, _, _)
SkipLookups(buffer, offset, i, numLookups) ==
  IF i >= numLookups THEN offset
  ELSE IF offset + PUBKEY_BYTES > Len(buffer) THEN -1
  ELSE LET writable == readCompactU16(buffer, offset + PUBKEY_BYTES)
           afterWritable == offset + PUBKEY_BYTES + writable[2] + writable[1]
           readonly == readCompactU16(buffer, afterWritable)
       IN SkipLookups(buffer, afterWritable + readonly[2] + readonly[1], i + 1,
                      numLookups)

\* The message from its header on (after the version byte of a versioned
\* message): header, keys, blockhash, instructions, and the lookups of a
\* versioned message.
MeasureMessage(buffer, offset, versioned) ==
  IF offset + MESSAGE_HEADER_BYTES > Len(buffer) THEN 0
  ELSE LET keys == readCompactU16(buffer, offset + MESSAGE_HEADER_BYTES)
           afterKeys == offset + MESSAGE_HEADER_BYTES + keys[2] + keys[1] * PUBKEY_BYTES
       IN IF afterKeys + PUBKEY_BYTES > Len(buffer) THEN 0
          ELSE LET instructions == readCompactU16(buffer, afterKeys + PUBKEY_BYTES)
                   afterInstructions ==
                     SkipInstructions(buffer,
                                      afterKeys + PUBKEY_BYTES + instructions[2],
                                      0, instructions[1])
               IN IF afterInstructions < 0 THEN 0
                  ELSE IF ~versioned THEN afterInstructions
                  ELSE LET lookups == readCompactU16(buffer, afterInstructions)
                           afterLookups == SkipLookups(buffer,
                                                       afterInstructions + lookups[2],
                                                       0, lookups[1])
                       IN IF afterLookups < 0 THEN 0 ELSE afterLookups

\* measureTransactionSize on a byte buffer.
measureTransactionSizeBytes(buffer) ==
  LET signatures == readCompactU16(buffer, 0)
      numSigs == signatures[1]
      offset == signatures[2] + numSigs * SIGNATURE_BYTES
  IN IF numSigs = 0 \/ numSigs > MAX_SIGNATURES THEN 0
     ELSE IF offset >= Len(buffer) THEN 0
     ELSE IF ByteAt(buffer, offset) = VERSION_PREFIX
     THEN MeasureMessage(buffer, offset + 1, TRUE)
     ELSE MeasureMessage(buffer, offset, FALSE)

\* Wire forms: one signature, a header, one key, a blockhash, instructions
\* with one account and some data, and for a versioned message one lookup.
Zeros(n) == [i \in 1 .. n |-> 0]
WireInstruction(dataLen) == <<0, 1, 0, dataLen>> \o Zeros(dataLen)
WireInstructionSets ==
  {<<0>>, <<1>> \o WireInstruction(0), <<1>> \o WireInstruction(5),
   <<2>> \o WireInstruction(2) \o WireInstruction(3)}
WireLookup == Zeros(PUBKEY_BYTES) \o <<2, 0, 1>> \o <<1, 3>>
WireLegacy(instructions) ==
  <<1>> \o Zeros(SIGNATURE_BYTES) \o <<1, 0, 0>> \o <<1>> \o Zeros(PUBKEY_BYTES)
        \o Zeros(PUBKEY_BYTES) \o instructions
WireVersioned(instructions, lookups) ==
  <<1>> \o Zeros(SIGNATURE_BYTES) \o <<VERSION_PREFIX>> \o <<1, 0, 0>> \o <<1>>
        \o Zeros(PUBKEY_BYTES) \o Zeros(PUBKEY_BYTES) \o instructions \o lookups
WireTransactions ==
  {WireLegacy(i) : i \in WireInstructionSets}
    \cup {WireVersioned(i, l) : i \in WireInstructionSets,
                                l \in {<<0>>, <<1>> \o WireLookup}}

\* The measured buffers: every wire form, cut anywhere, or followed by the
\* first bytes of the next transaction; and buffers without signatures.
MeasureBuffers ==
  UNION {{SubSeq(w, 1, n) : n \in 0 .. Len(w)} : w \in WireTransactions}
    \cup {w \o SubSeq(<<1, 0>>, 1, n) : w \in WireTransactions, n \in 1 .. MaxTrailing}
    \cup {<<0, 0>>, <<65>> \o Zeros(4), <<129, 1>> \o Zeros(4)}

\* measureTransactionSize is applied to the buffer.
Measure ==
  /\ ~measure.done
  /\ measure' = [measure EXCEPT !.done = TRUE,
                                 !.size = measureTransactionSizeBytes(measure.buffer)]
  /\ UNCHANGED <<pipelineVars, coreAuxVars, nonMeasureVars>>

InitMeasure == measure = [buffer |-> <<>>, done |-> FALSE, size |-> 0]

\* ---- Entry price against the market price ----
\* Decimals of the bought token, and market prices in USD per whole token
\* (0.5, 1 and 2 USD at the scale of the prices of this module).
TokenDecimals == {0, 6}
MarketPrices == {5 * PriceScale, 10 * PriceScale, 20 * PriceScale}
NoCheck ==
  [mint |-> "none", currentPrice |-> 0, entryPrice |-> 0, boughtAt |-> 0,
   profitZero |-> FALSE]

\* The outAmount of a swap of usdcAmount at the market price: the whole
\* tokens bought, in raw units of the mint.
JupiterOutAmount(usdcAmount, price, decimals) ==
  ((usdcAmount * PriceScale) \div price) * Pow10(decimals)

\* processTrade's success branch for a buy filled at the market price:
\* pricePerToken = usdcAmount / Number(tokenAmount), then recordBuy.
\* boughtAt keeps the market price of the position's buys (-1: several).
MarketBuy(m) ==
  LET tokenAmount == JupiterOutAmount(tradeAmountUsdc, market.price, market.decimals)
      usdcAmount == tradeAmountUsdc
      pricePerToken == (usdcAmount * PriceScale) \div tokenAmount
  IN /\ positions[m].buyCount < MaxMarketBuys
     /\ positions' = recordBuy(positions, m, tokenAmount, usdcAmount, pricePerToken, now)
     /\ market' = [market EXCEPT !.boughtAt[m] =
                     IF @ = 0 \/ @ = market.price THEN market.price ELSE -1]
     /\ UNCHANGED <<timeVars, copyVars, exitVars, filterVars, analyzerVars,
                    coreAuxVars, nonMarketVars>>

\* checkAllPositions for one position with the price the API answers:
\* profitPercent = ((currentPrice / entryPrice) - 1) * 100.
ObservePrice(m) ==
  LET currentPrice == market.price
      entryPrice == positions[m].entryPrice
  IN /\ positions[m].open
     /\ market' = [market EXCEPT !.check =
           [mint |-> m, currentPrice |-> currentPrice, entryPrice |-> entryPrice,
            boughtAt |-> market.boughtAt[m],
            profitZero |-> /\ ProfitAtLeast(currentPrice, entryPrice, 0)
                           /\ ProfitAtMost(currentPrice, entryPrice, 0)]]
     /\ UNCHANGED <<pipelineVars, coreAuxVars, nonMarketVars>>

\* The market price changes.
PriceMoves(price) ==
  /\ market.moves < MaxPriceMoves
  /\ price # market.price
  /\ market' = [market EXCEPT !.price = price, !.moves = @ + 1]
  /\ UNCHANGED <<pipelineVars, coreAuxVars, nonMarketVars>>

NewMarket(decimals, price) ==
  [decimals |-> decimals, price |-> price, moves |-> 0,
   boughtAt |-> [m \in Mints |-> 0], check |-> NoCheck]

InitMarket == market = NewMarket(6, 10 * PriceScale)

\* ---- index.ts: target wallets, the TRANSACTION gate, the trackers ----
TargetWalletSets == {{"A"}, {"B"}}
GateTxKeys == {<<"A", "okx">>, <<"B", "okx">>, <<"D", "okx">>}
NoGateTx == [checked |-> FALSE, accountKeys |-> <<>>, analysed |-> FALSE]
NewGate(wallets) == [targetWallets |-> wallets, started |-> FALSE, tx |-> NoGateTx]

\* The ADDRESS_ADDED and ADDRESS_REMOVED listeners of index.ts applied to
\* the events of a call, in the order they were emitted.
RECURSIVE TrackersAfter(_, _)
TrackersAfter(tracked, emitted) ==
  IF emitted = <<>> THEN tracked
  ELSE TrackersAfter(IF Head(emitted)[1] = "ADDRESS_ADDED"
                     THEN tracked \cup {Head(emitted)[2]}
                     ELSE tracked \ {Head(emitted)[2]},
                     Tail(emitted))

\* What the steps of this part leave alone.
GateFrame ==
  UNCHANGED <<timeVars, positions, copyVars, exitVars, filterVars,
              lookupTableCache, lastRpcCall, analysis, emitCount,
              coreAuxVars, nonGateVars>>

\* Startup: every configured target wallet is added to the tracked users.
RegisterTargets ==
  /\ ~gate.started
  /\ gate' = [gate EXCEPT !.started = TRUE]
  /\ trackedUsers' = trackedUsers \cup gate.targetWallets
  /\ subs' = subs
  /\ GateFrame

\* A WebSocket client's subscribe, unsubscribe or close: the manager's call
\* with the listeners its events run.
ClientCall(m, op, clientId, address) ==
  /\ subs.calls < MaxSubCalls
  /\ subs' = Called(m, op, clientId, address)
  /\ trackedUsers' = TrackersAfter(trackedUsers, m.emitted)
  /\ gate' = gate
  /\ GateFrame
ClientSubscribes(clientId, address) ==
  /\ gate.started
  /\ ClientCall(subscribe(Cleared, clientId, address), "subscribe", clientId, address)
ClientUnsubscribes(clientId, address) ==
  /\ gate.started
  /\ ClientCall(unsubscribe(Cleared, clientId, address), "unsubscribe", clientId, address)
ClientCloses(clientId) ==
  /\ gate.started
  /\ ClientCall(removeClient(Cleared, clientId), "removeClient", clientId, "none")

\* The TRANSACTION listener of index.ts: the transaction is analysed when
\* one of its account keys is an address the subscription manager tracks.
TransactionDecoded(accountKeys) ==
  /\ gate.started
  /\ gate' = [gate EXCEPT !.tx =
        [checked |-> TRUE, accountKeys |-> accountKeys,
         analysed |-> /\ subs.manager.trackedAddresses # {}
                      /\ \E i \in DOMAIN accountKeys :
                            accountKeys[i] \in subs.manager.trackedAddresses]]
  /\ UNCHANGED <<trackedUsers, subs>>
  /\ GateFrame

InitGate == gate = NewGate({"A"})

InitClassify == classify = [instructions |-> <<>>, done |-> FALSE, aggregator |-> "unknown"]

InitSubs == subs = NewSubscriptions

InitExtra == InitStream /\ InitClassify /\ InitSubs /\ InitMarket /\ InitMeasure /\ InitGate

InitAux == InitSubmit /\ InitFrame /\ InitDeltas /\ InitRisk /\ InitQuoteCalls /\ InitExtra

Init ==
  /\ InitAux
  /\ InitTime /\ InitLedger
  /\ config \in Configs /\ InitCopy
  /\ strategy = DefaultStrategy /\ InitExit
  /\ filterConfig = IndexFilterConfig /\ InitFilter
  /\ InitAnalyzer

InitExitSpec ==
  /\ InitAux
  /\ InitTime /\ InitLedger
  /\ config = IndexConfig /\ InitCopy
  /\ strategy \in Strategies /\ InitExit
  /\ filterConfig = IndexFilterConfig /\ InitFilter
  /\ InitAnalyzer

InitFilterSpec ==
  /\ InitAux
  /\ InitTime /\ InitLedger
  /\ config = IndexConfig /\ InitCopy
  /\ strategy = DefaultStrategy /\ InitExit
  /\ filterConfig \in FilterConfigs /\ InitFilter
  /\ InitAnalyzer

InitAnalyzerSpec ==
  /\ InitAux
  /\ InitTime /\ InitLedger
  /\ config = IndexConfig /\ InitCopy
  /\ strategy = DefaultStrategy /\ InitExit
  /\ filterConfig = IndexFilterConfig /\ InitFilter
  /\ InitAnalyzer

NextCopy ==
  \/ \E p \in Procs, t \in Trades : ProcessTrade(p, t)
  \/ \E p \in Procs, allowed \in BOOLEAN : FilterResolved(p, allowed)
  \/ \E p \in Procs, b \in UsdcBalances : BalanceResolved(p, b)
  \/ \E p \in Procs, ok \in BOOLEAN : PreBuiltSendResolved(p, ok)
  \/ \E p \in Procs, ok \in BOOLEAN :
        \E q \in QuoteAnswers(SwapModeOf(trade[p])) : QuoteResolved(p, ok, q)
  \/ \E p \in Procs, ok \in BOOLEAN : SwapResolved(p, ok)
  \/ \E m \in Mints, q \in QuoteAnswers("ExactIn") : PreFetchQuoteDone(m, q)
  \/ \E m \in Mints, ok \in BOOLEAN, a \in BuyTokenAmounts : PreBuildDone(m, ok, a)
  \/ RefreshPreBuilt
  \/ TickCopy

SpecCopy == Init /\ [][NextCopy]_vars

NextExit ==
  \/ Start
  \/ \E c \in Cycles : IntervalFires(c)
  \/ \E c \in Cycles, pr \in [Mints -> PriceAnswers] : PricesFetched(c, pr)
  \/ \E c \in Cycles, ok \in BOOLEAN : SellResolved(c, ok)
  \/ \E m \in Mints, a \in ExitBuyTokenAmounts : BuyRecorded(m, a)
  \/ TickExit

SpecExit == InitExitSpec /\ [][NextExit]_vars

\* The ExitManager next to a ledger in which the position of m1 is opened,
\* closed by a copied sell, and opened again.
ReopenPrices == {0, 100, 200}
NextReopen ==
  \/ Start
  \/ \E c \in Cycles : IntervalFires(c)
  \/ \E c \in Cycles, pr \in [Mints -> ReopenPrices] : PricesFetched(c, pr)
  \/ \E c \in Cycles, ok \in BOOLEAN : SellResolved(c, ok)
  \/ \E a \in ExitBuyTokenAmounts : PositionBought("m1", a)
  \/ PositionSold("m1")
  \/ TickExit

SpecReopen == InitExitSpec /\ [][NextReopen]_vars

NextFilter ==
  \/ \E f \in FilterCalls, m \in Mints : ShouldCopyTrade(f, m)
  \/ \E f \in FilterCalls, o \in FetchOutcomes, pair \in DexPairs :
        MetadataFetched(f, o, pair)
  \/ \E m \in Mints, price \in HistoryPrices : updatePriceHistory(m, price)
  \/ refreshStaleMetadata
  \/ \E m \in Mints, o \in FetchOutcomes, pair \in DexPairs : RefreshFetched(m, o, pair)
  \/ TickFilter

SpecFilter == InitFilterSpec /\ [][NextFilter]_vars

NextAnalyzer ==
  \/ \E a \in Analyses, tx \in DecodedTxs : AnalyzeTransaction(a, tx)
  \/ \E a \in Analyses : SleepDone(a)
  \/ \E a \in Analyses, o \in TableOutcomes : TableFetched(a, o)
  \/ \E a \in Analyses, parsed \in ParsedAnswers : ParsedFetched(a, parsed)
  \/ \E address \in TrackableAddresses : addTrackedUser(address)
  \/ \E address \in TrackableAddresses : removeTrackedUser(address)
  \/ TickAnalyzer

SpecAnalyzer == InitAnalyzerSpec /\ [][NextAnalyzer]_vars

\* The pipeline's state as index.ts constructs it.
InitPipeline ==
  /\ InitTime /\ InitLedger
  /\ config = IndexConfig /\ InitCopy
  /\ strategy = DefaultStrategy /\ InitExit
  /\ filterConfig = IndexFilterConfig /\ InitFilter
  /\ InitAnalyzer

\* Sends with useJito configured: initJito is running.
InitSubmitSpec ==
  /\ InitPipeline
  /\ jito = [useJito |-> TRUE, ready |-> FALSE, attempt |-> 1, delays |-> <<>>]
  /\ submits = [u \in Submitters |-> IdleSubmit]
  /\ InitFrame /\ InitDeltas /\ InitRisk /\ InitQuoteCalls /\ InitExtra

NextSubmit ==
  \/ \E ok \in BOOLEAN : InitJitoResolved(ok)
  \/ \E u \in Submitters, tx \in SubmitTxs : SendTransaction(u, tx)
  \/ \E u \in Submitters, ok \in BOOLEAN, bundleOk \in BOOLEAN :
        BlockhashResolved(u, ok, bundleOk)
  \/ \E u \in Submitters, ok \in BOOLEAN : RpcOnlyResolved(u, ok)
  \/ \E u \in Submitters, ok \in BOOLEAN : JitoSettled(u, ok)
  \/ \E u \in Submitters, ok \in BOOLEAN : RpcSettled(u, ok)

SpecSubmit == InitSubmitSpec /\ [][NextSubmit]_vars

InitEntriesSpec == InitPipeline /\ InitAux

NextEntries == \E slot \in Slots, payload \in Payloads : ProcessEntry(slot, payload)

SpecEntries == InitEntriesSpec /\ [][NextEntries]_vars

\* The parsed transaction is any of the bounded answers of the RPC.
InitDeltasSpec ==
  /\ InitPipeline /\ InitSubmit /\ InitFrame /\ InitRisk /\ InitQuoteCalls /\ InitExtra
  /\ parsedTx \in ParsedTxs /\ deltas = NoDeltas

NextDeltas == ExtractDeltas

SpecDeltas == InitDeltasSpec /\ [][NextDeltas]_vars

InitLedgerSpec ==
  /\ InitPipeline /\ InitSubmit /\ InitFrame /\ InitDeltas /\ InitQuoteCalls /\ InitExtra
  /\ limits \in LedgerLimits /\ riskCall = NoRiskCall /\ closedMints = {}

NextLedger ==
  \/ \E m \in Mints, d \in {"buy", "sell"}, a \in LedgerUsdcAmounts, b \in LedgerBalances :
        CanTradeCall(m, d, a, b)
  \/ \E m \in Mints, t \in LedgerTokenAmounts, a \in LedgerUsdcAmounts :
        RecordBuyCall(m, t, a)
  \/ \E m \in Mints, t \in LedgerTokenAmounts, a \in LedgerUsdcAmounts :
        RecordSellCall(m, t, a)

SpecLedger == InitLedgerSpec /\ [][NextLedger]_vars

\* Calls of getQuoteWithCache while the pre-fetch timer refreshes the cache:
\* ALLOWED_TOKENS names a token, so index.ts starts the pre-fetch.
InitQuoteSpec ==
  /\ InitTime /\ InitLedger
  /\ config = [IndexConfig EXCEPT !.allowedTokens = {"m1"}] /\ InitCopy
  /\ strategy = DefaultStrategy /\ InitExit
  /\ filterConfig = IndexFilterConfig /\ InitFilter
  /\ InitAnalyzer
  /\ InitAux

NextQuote ==
  \/ \E c \in QuoteCallers, key \in QuoteKeys : GetQuoteWithCache(c, key)
  \/ \E c \in QuoteCallers, ok \in BOOLEAN : GetQuoteResolved(c, ok)
  \/ \E m \in Mints, q \in QuoteAnswers("ExactIn") : PreFetchQuoteDone(m, q)
  \/ TickQuote

SpecQuote == InitQuoteSpec /\ [][NextQuote]_vars

\* The client with a small cap on the reconnect attempts.
InitStreamSpec ==
  /\ InitPipeline
  /\ InitSubmit /\ InitFrame /\ InitDeltas /\ InitRisk /\ InitQuoteCalls
  /\ client \in {NewClient(cap) : cap \in ReconnectCaps}
  /\ streams = [s \in StreamIds |-> NoStream]
  /\ InitClassify /\ InitSubs /\ InitMarket /\ InitMeasure /\ InitGate

NextStream ==
  \/ Connect
  \/ ReconnectTimerFired
  \/ \E s \in StreamIds : ConnectResolved(s)
  \/ \E s \in StreamIds, code \in GrpcErrorCodes : StreamError(s, code)
  \/ \E s \in StreamIds : StreamEnd(s)
  \/ Disconnect

SpecStream == InitStreamSpec /\ [][NextStream]_vars

\* resolveAccountKeys on transactions with two lookups, nobody tracked.
InitResolveSpec == InitAnalyzerSpec

NextResolve ==
  \/ \E a \in Analyses, tx \in ResolveTxs : AnalyzeTransaction(a, tx)
  \/ \E a \in Analyses : SleepDone(a)
  \/ \E a \in Analyses, o \in TableOutcomes : TableFetched(a, o)
  \/ TickAnalyzer

SpecResolve == InitResolveSpec /\ [][NextResolve]_vars

\* The classifier on every bounded instruction list.
InitClassifySpec ==
  /\ InitPipeline
  /\ InitSubmit /\ InitFrame /\ InitDeltas /\ InitRisk /\ InitQuoteCalls
  /\ InitStream /\ InitSubs /\ InitMarket /\ InitMeasure /\ InitGate
  /\ classify \in [instructions : ClassifyInputs, done : {FALSE}, aggregator : {"unknown"}]

NextClassify == Classify

SpecClassify == InitClassifySpec /\ [][NextClassify]_vars

\* The SubscriptionManager under every bounded sequence of calls.
NextSubs ==
  \/ \E c \in SubClients, a \in SubAddresses : Subscribe(c, a)
  \/ \E c \in SubClients, a \in SubAddresses : Unsubscribe(c, a)
  \/ \E c \in SubClients : RemoveClient(c)

SpecSubs == Init /\ [][NextSubs]_vars

\* Buys at the market price and price checks, for every token decimals and
\* starting price.
InitPriceSpec ==
  /\ InitPipeline
  /\ InitSubmit /\ InitFrame /\ InitDeltas /\ InitRisk /\ InitQuoteCalls
  /\ InitStream /\ InitClassify /\ InitSubs /\ InitMeasure /\ InitGate
  /\ market \in {NewMarket(d, p) : d \in TokenDecimals, p \in MarketPrices}

NextPrice ==
  \/ \E m \in Mints : MarketBuy(m)
  \/ \E m \in Mints : ObservePrice(m)
  \/ \E p \in MarketPrices : PriceMoves(p)

SpecPrice == InitPriceSpec /\ [][NextPrice]_vars

\* measureTransactionSize on every buffer of MeasureBuffers.
InitMeasureSpec ==
  /\ InitPipeline
  /\ InitSubmit /\ InitFrame /\ InitDeltas /\ InitRisk /\ InitQuoteCalls
  /\ InitStream /\ InitClassify /\ InitSubs /\ InitMarket /\ InitGate
  /\ measure \in [buffer : MeasureBuffers, done : {FALSE}, size : {0}]

NextMeasure == Measure

SpecMeasure == InitMeasureSpec /\ [][NextMeasure]_vars

\* Target wallets next to WebSocket subscriptions.
InitTrackingSpec ==
  /\ InitPipeline
  /\ InitSubmit /\ InitFrame /\ InitDeltas /\ InitRisk /\ InitQuoteCalls
  /\ InitStream /\ InitClassify /\ InitSubs /\ InitMarket /\ InitMeasure
  /\ gate \in {NewGate(w) : w \in TargetWalletSets}

NextTracking ==
  \/ RegisterTargets
  \/ \E c \in SubClients, a \in SubAddresses : ClientSubscribes(c, a)
  \/ \E c \in SubClients, a \in SubAddresses : ClientUnsubscribes(c, a)
  \/ \E c \in SubClients : ClientCloses(c)
  \/ \E keys \in GateTxKeys : TransactionDecoded(keys)

SpecTracking == InitTrackingSpec /\ [][NextTracking]_vars

Next ==
  \/ NextTracking \/ NextReopen \/ NextMeasure \/ NextStream \/ NextResolve \/ NextClassify \/ NextSubs \/ NextPrice
  \/ NextCopy \/ NextExit \/ NextFilter \/ NextAnalyzer
  \/ NextSubmit \/ NextEntries \/ NextDeltas \/ NextLedger \/ NextQuote
Spec == Init /\ [][Next]_vars

---------------------------------------------------------------------------
(***************************************************************************)
(* Claims about the copy engine (checked under SpecCopy)                   *)
(***************************************************************************)

\* C1: a pre-built buy transaction is single-use: no two buyToken calls
\* obtain and send the same pre-built entry.
C1_PreBuiltSingleUse ==
  \A p \in Procs : \A q \in Procs \ {p} :
    held[p].present /\ held[q].present => held[p].id # held[q].id

\* C1 (case): two buyToken calls for one mint are both sending a pre-built entry.
C1_TwoConcurrentBuys ==
  \E p \in Procs : \E q \in Procs \ {p} :
    /\ pc[p] = "sendPreBuilt" /\ pc[q] = "sendPreBuilt"
    /\ trade[p].tokenMint = trade[q].tokenMint

\* A copy attempt is between its canTrade and its own record_* (or its end).
InRiskWindow(p) == config.hasPM /\ pc[p] \in InFlightPc

\* C2: canTrade -> recordBuy/recordSell of one copy attempt is atomic with
\* respect to the other attempts for the same mint: no two attempts (for
\* different original trades) on one mint are between their canTrade and
\* their record_* at the same time.
C2_RiskCheckAtomic ==
  \A p \in Procs : \A q \in Procs \ {p} :
    /\ InRiskWindow(p) /\ InRiskWindow(q)
    /\ trade[p].signature # trade[q].signature
    => trade[p].tokenMint # trade[q].tokenMint

\* C2 (case): both attempts on one mint passed canTrade and both recorded,
\* taking the position beyond the per-position limit.
C2_BothRecorded ==
  \E m \in Mints :
    /\ positions[m].open /\ positions[m].buyCount = 2
    /\ \A p \in Procs : pc[p] = "done" /\ recorded[p].op = "buy"
    /\ \E p \in Procs : \E q \in Procs \ {p} : trade[p].signature # trade[q].signature

\* C3: an invocation that starts while another invocation for the same
\* signature is being processed executes no swap, and at most one swap per
\* original signature is in flight.
C3_InFlightDedup ==
  /\ \A p \in Procs : dupAtInvoke[p] => pc[p] \notin InFlightPc
  /\ \A p \in Procs : \A q \in Procs \ {p} :
       pc[p] \in InFlightPc /\ pc[q] \in InFlightPc
         => trade[p].signature # trade[q].signature

\* C3 (case): a second invocation for a signature whose first invocation is
\* executing its swap is skipped as a duplicate.
C3_DuplicateSkipped ==
  \E p \in Procs : \E q \in Procs \ {p} :
    /\ pc[q] \in InFlightPc /\ trade[p].signature = trade[q].signature
    /\ pc[p] = "done" /\ skipReason[p] = "already_copying"

\* C7: a completed copy records the quote's in-amount for a sell (the tokens
\* sold) and the quote's out-amount for a buy (the tokens received).
C7_LedgerAmountFromQuote ==
  \A p \in Procs :
    pc[p] = "done" /\ recorded[p].op # "none" =>
      recorded[p].tokenAmount =
        IF trade[p].direction = "sell"
        THEN quote[p].inAmount
        ELSE IF held[p].present /\ ~quote[p].present
             THEN held[p].outAmount ELSE quote[p].outAmount

\* C7 (case): a copied buy went through and was recorded with the tokens received.
C7_BuyRecorded ==
  \E p \in Procs :
    /\ pc[p] = "done" /\ recorded[p].op = "buy"
    /\ recorded[p].tokenAmount \in BuyTokenAmounts
    /\ positions[trade[p].tokenMint].amount >= recorded[p].tokenAmount

---------------------------------------------------------------------------
(***************************************************************************)
(* Claims about the exit manager (checked under SpecExit)                  *)
(***************************************************************************)

\* C4: every exit sells its percentage of the position's current holdings,
\* so the tokens sold by executed exits never exceed the tokens bought.
C4_ExitsWithinHoldings ==
  \A m \in Mints : exitSold[m] <= bought[m]

\* C4 (case): the whole ladder was executed for a position.
C4_LadderExecuted ==
  \E m \in Mints :
    /\ bought[m] > 0 /\ fullExit[m]
    /\ \A i \in 1 .. TpCount : tpSells[m][i] >= 1

\* C5: the ledger follows the executed exits: a position holds what was
\* bought less what executed exits sold, and is closed after an executed
\* 100 % exit.
C5_LedgerFollowsExits ==
  \A m \in Mints :
    /\ positions[m].amount = bought[m] - exitSold[m]
    /\ fullExit[m] => ~positions[m].open

\* C5 (case): an exit of 100 % of a position was executed.
C5_FullExitExecuted ==
  \E m \in Mints : bought[m] > 0 /\ fullExit[m] /\ exitSold[m] >= bought[m]

\* C6: every take-profit target initiates at most one sell per position.
C6_TakeProfitOnce ==
  \A m \in Mints : \A i \in 1 .. TpCount : tpSells[m][i] <= 1

\* C6 (case): a check cycle evaluates a position while another cycle's
\* take-profit sell for it is still running.
C6_OverlappingCycles ==
  \E c \in Cycles : \E d \in Cycles \ {c} :
    /\ cycle[c].pc = "sell" /\ cycle[c].step <= TpCount
    /\ cycle[d].pc \in {"fetch", "sell"}
    /\ cycle[c].list[cycle[c].idx] \in {cycle[d].list[i] : i \in 1 .. Len(cycle[d].list)}

---------------------------------------------------------------------------
(***************************************************************************)
(* Claims about the trade filter (checked under SpecFilter)                *)
(***************************************************************************)

\* C8: the filter fails open: a call whose metadata request failed allows
\* the trade, with reason filter_error.
C8_FailOpen ==
  \A f \in FilterCalls :
    fcall[f].pc = "done" /\ fcall[f].fetched = "error"
      => fcall[f].allowed /\ fcall[f].reason = "filter_error"

\* C8 (case): the metadata request of a call for a token that is not
\* whitelisted failed, and the call was answered.
C8_FetchFailed ==
  \E f \in FilterCalls :
    /\ fcall[f].pc = "done" /\ fcall[f].fetched = "error"
    /\ fcall[f].tokenMint \notin filterConfig.whitelist

---------------------------------------------------------------------------
(***************************************************************************)
(* Claims about the trade analyzer (checked under SpecAnalyzer)            *)
(***************************************************************************)

\* The user of an emitted trade is the first of the resolved keys that was
\* in the watched set when the analysis consulted it.
FirstWatchedKey(rec) ==
  \E i \in DOMAIN rec.fullKeys :
    /\ rec.fullKeys[i] = rec.trade.userAddress
    /\ rec.fullKeys[i] \in rec.watchedAtCheck
    /\ \A j \in 1 .. i - 1 : rec.fullKeys[j] \notin rec.watchedAtCheck

C10_SingleEvaluation ==
  \A k \in Signatures \X Addresses : emitCount[k] <= 1

\* C10 (case): one decoded transaction was handed to analyzeTransaction twice.
C10_DeliveredTwice ==
  \E a \in Analyses : \E b \in Analyses \ {a} :
    /\ analysis[a].pc = "done" /\ analysis[b].pc = "done"
    /\ analysis[a].tx = analysis[b].tx /\ analysis[a].trade.present

\* C15: the trailing stop never fires before the position's profit has
\* reached the activation percent, and once the profit has reached it, a
\* check at which the drawdown from the high-water mark is at or above the
\* trailing stop percent sells 100 %.
C15_TrailingStopLatched ==
  strategy.trailingStopPercent # 0 =>
    \A m \in Mints :
      trail[m].evaluated =>
        /\ trail[m].fired => trail[m].reached
        /\ trail[m].reached /\ trail[m].due => trail[m].fired

\* C15 (case): a trailing-stop check sold the position.
C15_TrailingStopFired ==
  \E c \in Cycles :
    /\ cycle[c].pc = "sell" /\ cycle[c].step = StepTrailingStop
    /\ trail[cycle[c].list[cycle[c].idx]].fired
    /\ cycle[c].tokens = positions[cycle[c].list[cycle[c].idx]].amount

---------------------------------------------------------------------------
(***************************************************************************)
(* Claims about sending a signed transaction (SpecSubmit)                  *)
(***************************************************************************)
\* C11: when both transports are used, the send returns the transaction's
\* signature as soon as either transport has succeeded: no send is still
\* waiting in the race while one of its transports has already succeeded.
C11_ReturnsOnFirstSuccess ==
  \A u \in Submitters :
    submits[u].pc = "race" => submits[u].jito # "ok" /\ submits[u].rpc # "ok"

\* C11 (case): a send went through the race, one transport succeeded and
\* the send returned the transaction's signature.
C11_RaceWon ==
  \E u \in Submitters :
    /\ submits[u].pc = "done" /\ submits[u].jito \in {"ok", "fail"}
    /\ submits[u].jito = "ok" \/ submits[u].rpc = "ok"
    /\ submits[u].result = submits[u].tx

\* C12: a send through sendViaJito fails if and only if both the RPC send
\* and the bundle submission failed, the error is then the RPC send's, and
\* otherwise the result is the signature of the submitted transaction.
C12_FailsIffBothFail ==
  \A u \in Submitters :
    submits[u].pc = "done" /\ (submits[u].jito # "none" \/ submits[u].error = "blockhash")
      => /\ submits[u].result = "error"
              <=> (submits[u].jito = "fail" /\ submits[u].rpc = "fail")
         /\ submits[u].result = "error" => submits[u].error = "rpc"
         /\ submits[u].result # "error" => submits[u].result = submits[u].tx

\* C12 (case): both transports of a race failed and the send failed.
C12_BothFailed ==
  \E u \in Submitters :
    /\ submits[u].pc = "done" /\ submits[u].jito = "fail" /\ submits[u].rpc = "fail"
    /\ submits[u].result = "error"

---------------------------------------------------------------------------
(***************************************************************************)
(* Claims about deserializeEntries (SpecEntries)                           *)
(***************************************************************************)
\* The payload holds, where an entry expects a transaction, bytes that
\* measure 0 or a transaction whose declared length runs past the end.
HasBrokenTx(payload) ==
  \E i \in 1 .. Len(payload.ents) :
    i <= payload.count /\ \E t \in 1 .. Len(payload.ents[i].txs) :
      payload.ents[i].txs[t] \in BrokenTxs

\* C13: deserializeEntries fails when a transaction of an entry with
\* tx_count > 0 measures 0 or a declared length runs past the payload, and
\* no entry of a returned result holds fewer transactions than it declares.
C13_MalformedEntryFails ==
  /\ HasBrokenTx(frame.entries) => ~solanaEntries.ok
  /\ solanaEntries.ok =>
       \A i \in 1 .. Len(solanaEntries.entries) :
         Len(solanaEntries.entries[i].transactions) >= solanaEntries.entries[i].declared

\* C13 (case): a payload whose last entry declares a transaction that
\* measures 0 was deserialized.
C13_ZeroMeasured ==
  /\ frame.slot > 0 /\ frame.entries.count = Len(frame.entries.ents)
  /\ \E i \in 1 .. Len(frame.entries.ents) : \E t \in 1 .. Len(frame.entries.ents[i].txs) :
       frame.entries.ents[i].txs[t].wire = 0

---------------------------------------------------------------------------
(***************************************************************************)
(* Claims about extractTokenBalanceDeltas (SpecDeltas)                     *)
(***************************************************************************)
RECURSIVE SumRaw(_, _, _, _)
SumRaw(balances, i, owner, mint) ==
  IF i > Len(balances) THEN 0
  ELSE (IF balances[i].owner = owner /\ balances[i].mint = mint
        THEN balances[i].amount ELSE 0) + SumRaw(balances, i + 1, owner, mint)

\* C14: for each mint of the result, the raw delta is the sum of the user's
\* post-balance raw amounts of the mint minus the sum of the user's
\* pre-balance raw amounts, also with several accounts of one mint.
C14_DeltaIsPostMinusPre ==
  deltas.done =>
    \A i \in 1 .. Len(deltas.list) :
      deltas.list[i].deltaRaw =
        SumRaw(parsedTx.post, 1, parsedTx.userAddress, deltas.list[i].mint)
        - SumRaw(parsedTx.pre, 1, parsedTx.userAddress, deltas.list[i].mint)

\* C14 (case): the deltas were extracted for a user owning two accounts of
\* one mint in the pre list.
C14_TwoPreAccounts ==
  /\ deltas.done /\ Len(parsedTx.pre) = 2 /\ Len(deltas.list) > 0
  /\ parsedTx.pre[1].owner = parsedTx.userAddress
  /\ parsedTx.pre[2].owner = parsedTx.userAddress
  /\ parsedTx.pre[1].mint = parsedTx.pre[2].mint

---------------------------------------------------------------------------
C18_ReserveRejectedFirst ==
  riskCall.called /\ riskCall.direction = "buy"
    /\ riskCall.balance - riskCall.amountUsdc < limits.minUsdcReserve
    => ~riskCall.allowed /\ riskCall.reason = "reserve"

\* C18 (witness): limits $4 per position and $10 reserve; after two buys of
\* $2 on a mint, canTrade(mint, buy, $2, balance $8) was rejected.
C18_ThirdBuyExample ==
  /\ limits.maxPositionSizeUsdc = 40 /\ limits.minUsdcReserve = 100
  /\ riskCall.called /\ riskCall.direction = "buy"
  /\ riskCall.amountUsdc = 20 /\ riskCall.balance = 80
  /\ positions[riskCall.tokenMint].buyCount = 2
  /\ positions[riskCall.tokenMint].totalCostUsdc = 40
  /\ ~riskCall.allowed

\* C19: when canTrade allows a buy whose post-trade position cost is at
\* least 80 % of maxPositionSizeUsdc, or whose post-trade exposure is at
\* least 80 % of maxTotalExposureUsdc, a limit_warning of that limit is
\* emitted, also at exactly 80 %.
C19_WarningFromEightyPercent ==
  riskCall.called /\ riskCall.allowed /\ riskCall.direction = "buy" =>
    /\ riskCall.newPositionSize * 10 >= limits.maxPositionSizeUsdc * 8
         => "position_size" \in riskCall.warnings
    /\ riskCall.newTotalExposure * 10 >= limits.maxTotalExposureUsdc * 8
         => "total_exposure" \in riskCall.warnings

\* C19 (case): an allowed buy brings the exposure to exactly 80 % of the
\* limit.
C19_ExactlyEightyPercent ==
  /\ riskCall.called /\ riskCall.allowed /\ riskCall.direction = "buy"
  /\ riskCall.newTotalExposure * 10 = limits.maxTotalExposureUsdc * 8

---------------------------------------------------------------------------
(***************************************************************************)
(* Claims about the quote cache (checked under SpecQuote)                  *)
(***************************************************************************)
\* C20: a getQuoteWithCache call made less than the 5 s TTL after a call of
\* the same key missed the cache and returned its fetched quote performs no
\* fetch: the quote fetched on the miss was inserted and is returned.
C20_SecondCallWithinTtlNoFetch ==
  \A c \in QuoteCallers :
     quoteCalls[c].pc # "idle" /\ quoteCalls[c].afterMiss => ~quoteCalls[c].fetched

\* C20 (case): a call is made within the TTL of a completed miss of its key.
C20_SecondCallAfterMiss ==
  \E c \in QuoteCallers : quoteCalls[c].pc # "idle" /\ quoteCalls[c].afterMiss

---------------------------------------------------------------------------
(***************************************************************************)
(* Claims checked in the third round                                       *)
(***************************************************************************)
\* C21: when buyToken reads a pre-built entry whose expiresAt has passed,
\* the entry is removed from txCache and the buy goes on as on a miss: the
\* expired transaction is not sent.
C21_ExpiredEntryRemoved ==
  \A p \in Procs : txLookup[p].expired => ~txLookup[p].kept /\ ~txLookup[p].sent

\* C21 (case): a buy has read an expired pre-built entry.
C21_ExpiredLookup == \E p \in Procs : txLookup[p].expired

\* C21 (the part that holds): an expired pre-built transaction is never sent.
C21_ExpiredNeverSent == \A p \in Procs : txLookup[p].expired => ~txLookup[p].sent

TerminalEvents == {"copy_skipped", "copy_failed", "copy_complete"}
TerminalCount(e) == Cardinality({i \in DOMAIN e : e[i] \in TerminalEvents})

\* C22: every trade handed to processTrade ends in exactly one terminal
\* event (copy_skipped with a reason, copy_failed or copy_complete), and none
\* is emitted before it ends; copy_complete and copy_failed follow the
\* trade's copy_initiated, and a skipped trade emits no copy_initiated.
C22_OneTerminalEvent ==
  \A p \in Procs :
     LET e == events[p]
     IN /\ TerminalCount(e) = (IF pc[p] = "done" THEN 1 ELSE 0)
        /\ pc[p] = "done" =>
              \/ e = <<"copy_skipped">> /\ skipReason[p] # "none"
              \/ e = <<"copy_initiated", "copy_failed">>
              \/ e = <<"copy_initiated", "copy_complete">>
        /\ pc[p] # "done" => e \in {<<>>, <<"copy_initiated">>}

\* C22 (witness): one trade was skipped by the risk check and another failed
\* after its copy was initiated.
C22_SkippedAndFailed ==
  \E p, q \in Procs :
     /\ events[p] = <<"copy_skipped">> /\ skipReason[p] = "risk_limit"
     /\ events[q] = <<"copy_initiated", "copy_failed">>

\* C23: MAX_RECONNECT_ATTEMPTS_REACHED is emitted once the reconnect
\* attempts made since the last successful connect have reached
\* maxReconnectAttempts, not before; below the cap a stream error or end
\* leaves the reconnect timer pending, and at the cap no timer is pending.
C23_MaxAfterCapAttempts ==
  client.maxEmitted => client.madeAtMax >= client.maxReconnectAttempts

\* C23 (case): MAX_RECONNECT_ATTEMPTS_REACHED has been emitted.
C23_MaxReached == client.maxEmitted /\ ~client.disconnected

\* C24: after disconnect() connected is false, no reconnect timer is
\* pending, and no connection attempt is made.
C24_StaysDisconnected ==
  client.disconnected =>
    /\ ~client.isConnected /\ ~client.timer
    /\ ~client.connectAfterDisconnect /\ ~client.connectedAfterDisconnect

\* C24 (case): disconnect() cancelled a stream and the stream reported it.
C24_CancelReported ==
  /\ client.disconnected
  /\ \E s \in StreamIds : streams[s].cancelled /\ streams[s].errored

\* C25: initJito makes at most 3 attempts; the failed attempts are followed
\* by backoff delays of 2 s, 4 s and 8 s; after the last failure the relay
\* is disabled.
C25_BackoffDelays ==
  /\ jito.attempt <= JITO_MAX_RETRIES + 1
  /\ jito.attempt > JITO_MAX_RETRIES => jito.delays = <<2000, 4000, 8000>>

\* C25 (case): all attempts of initJito have failed.
C25_AllAttemptsFailed == jito.attempt > JITO_MAX_RETRIES /\ ~jito.useJito

\* C25 (the part that holds): once the relay is disabled no send takes the
\* relay path.
C25_DisabledUsesRpcOnly ==
  ~jito.useJito => \A u \in Submitters : submits[u].pc \notin {"blockhash", "race"}

\* The lookup table an analysis is fetching.
FetchingTable(a) == analysis[a].tx.lookups[analysis[a].li].accountKey

\* C30: at most one getAddressLookupTable call is in flight for a lookup
\* table address at any time.
C30_FetchesCoalesced ==
  \A a, b \in Analyses :
     a # b /\ analysis[a].pc = "fetchTable" /\ analysis[b].pc = "fetchTable"
       => FetchingTable(a) # FetchingTable(b)

\* C30 (case): two analyses of transactions that reference the same
\* uncached lookup table are under way at once.
C30_ConcurrentSameTable ==
  \E a, b \in Analyses :
     /\ a # b
     /\ analysis[a].pc \in {"sleep", "fetchTable"}
     /\ analysis[b].pc \in {"sleep", "fetchTable"}
     /\ FetchingTable(a) = FetchingTable(b)

\* The entries of a table at the indexes it has, in the order of the indexes.
EntriesAt(addresses, indexes) ==
  LET valid == SelectSeq(indexes, LAMBDA i : i \in DOMAIN addresses)
  IN [k \in 1 .. Len(valid) |-> addresses[valid[k]]]

\* Static keys, then per lookup in order the writable and then the readonly
\* entries of the tables in `got`.
RECURSIVE ExpectedLookupKeys(_, _, _)
ExpectedLookupKeys(tx, got, i) ==
  IF i > Len(tx.lookups) THEN <<>>
  ELSE LET lookup == tx.lookups[i]
           addresses == TableAddresses[lookup.accountKey]
       IN (IF i \in got
           THEN EntriesAt(addresses, lookup.writableIndexes)
                  \o EntriesAt(addresses, lookup.readonlyIndexes)
           ELSE <<>>)
          \o ExpectedLookupKeys(tx, got, i + 1)

\* C26: the keys resolveAccountKeys returns for a versioned transaction
\* start with the static keys in order and go on, for each lookup in order
\* whose table was obtained, with the table's writable-index addresses and
\* then its readonly-index addresses; they are never fewer than the static
\* keys, also when table fetches fail.
C26_FullKeysLayout ==
  \A a \in Analyses :
     LET rec == analysis[a]
         static == rec.tx.accountKeys
     IN rec.pc # "idle" /\ rec.tx.isVersioned =>
          /\ Len(rec.fullKeys) >= Len(static)
          /\ SubSeq(rec.fullKeys, 1, Len(static)) = static
          /\ rec.pc = "done" =>
                \E got \in SUBSET DOMAIN rec.tx.lookups :
                   rec.fullKeys = static \o ExpectedLookupKeys(rec.tx, got, 1)

\* C26 (witness): a resolution is complete in which the fetch of the first
\* table failed and the second table gave writable and readonly addresses.
C26_PartialResolution ==
  \E a \in Analyses :
     /\ analysis[a].pc = "done"
     /\ ~lookupTableCache["T1"].present /\ lookupTableCache["T2"].present
     /\ analysis[a].fullKeys = <<"B", "A", "F", "E", "F">>

\* The instructions of the list that are a swap of the program they call.
IsSwapOf(ix, program, discriminators) ==
  /\ ix.programId = program
  /\ Len(ix.data) >= 8
  /\ SubSeq(ix.data, 1, 8) \in discriminators
SwapIndexes(instructions) ==
  {i \in DOMAIN instructions :
     \/ IsSwapOf(instructions[i], OKX_PROGRAM_ID, OKX_SWAP_DISCRIMINATORS)
     \/ IsSwapOf(instructions[i], DFLOW_PROGRAM_ID, DFLOW_SWAP_DISCRIMINATORS)}

\* C27: the classifier answers with the aggregator of the first instruction
\* whose program is an aggregator's and whose first 8 data bytes are one of
\* that aggregator's discriminators (12 for OKX, 6 for DFlow), and with
\* unknown when there is none: a discriminator with one byte changed, data
\* under 8 bytes, or a discriminator of the other aggregator only do not
\* match.
C27_FirstSwapInstructionDecides ==
  /\ Cardinality(OKX_SWAP_DISCRIMINATORS) = 12
  /\ Cardinality(DFLOW_SWAP_DISCRIMINATORS) = 6
  /\ classify.done =>
       LET hits == SwapIndexes(classify.instructions)
       IN IF hits = {} THEN classify.aggregator = "unknown"
          ELSE LET first == CHOOSE i \in hits : \A j \in hits : i <= j
               IN classify.aggregator =
                    (IF classify.instructions[first].programId = OKX_PROGRAM_ID
                     THEN "okx" ELSE "dflow")

\* C27 (witness): the first instruction calls OKX with a discriminator only
\* DFlow lists, the second calls DFlow with it: classified as DFlow.
C27_SecondInstructionMatches ==
  /\ classify.done /\ classify.aggregator = "dflow"
  /\ Len(classify.instructions) = 2
  /\ classify.instructions[1] =
        [programId |-> OKX_PROGRAM_ID,
         data |-> <<222, 100, 184, 146, 186, 196, 105, 165>>]
  /\ classify.instructions[2].programId = DFLOW_PROGRAM_ID

\* How many times the last call emitted the event for the address.
EmittedCount(event, address) ==
  Cardinality({i \in DOMAIN subs.manager.emitted :
                 subs.manager.emitted[i] = <<event, address>>})

\* C28: a call emits ADDRESS_ADDED for an address once when its subscriber
\* count went from 0 to 1 and never otherwise, and ADDRESS_REMOVED once when
\* the count went from 1 to 0 (by unsubscribe or by removeClient) and never
\* otherwise; and an address is tracked exactly while it has a subscriber.
C28_EventsOnFirstAndLastSubscriber ==
  \A a \in SubAddresses :
    LET after == SubscriberCount(subs.manager, a)
    IN /\ EmittedCount("ADDRESS_ADDED", a) =
            (IF subs.before[a] = 0 /\ after = 1 THEN 1 ELSE 0)
       /\ EmittedCount("ADDRESS_REMOVED", a) =
            (IF subs.before[a] = 1 /\ after = 0 THEN 1 ELSE 0)
       /\ (a \in subs.manager.trackedAddresses) = (after > 0)

\* C28 (witness): removeClient took the last subscriber from A, reported it
\* removed, and left B, which another client also follows, unreported.
C28_RemoveClientLastSubscriber ==
  /\ subs.op = "removeClient"
  /\ subs.before = [a \in SubAddresses |-> IF a = "A" THEN 1 ELSE 2]
  /\ subs.manager.emitted = <<(<<"ADDRESS_REMOVED", "A">>)>>
  /\ SubscriberCount(subs.manager, "B") = 1

\* C29: the entry price of an open position is its total cost divided by its
\* amount in whole tokens (raw amount / 10^decimals), the unit of the market
\* price, so a price check at the price the position was bought at finds a
\* profit of 0 percent.
C29_EntryPriceInMarketUnit ==
  /\ \A m \in Mints :
       positions[m].open =>
         positions[m].entryPrice =
           (positions[m].totalCostUsdc * PriceScale)
             \div (positions[m].amount \div Pow10(market.decimals))
  /\ (market.check.mint # "none" /\ market.check.boughtAt = market.check.currentPrice)
       => market.check.profitZero

\* C29 (case): a position of a token with 6 decimals is checked at the
\* market price it was bought at.
C29_CheckedAtBuyPrice ==
  /\ market.decimals = 6
  /\ market.check.mint # "none"
  /\ market.check.boughtAt = market.check.currentPrice
  /\ market.check.currentPrice = market.check.entryPrice * Pow10(6)

\* C29 (part that holds): for a token without decimals the price check at
\* the buy price finds a profit of 0 percent.
C29_NoDecimalsProfitZero ==
  (/\ market.decimals = 0 /\ market.check.mint # "none"
   /\ market.check.boughtAt = market.check.currentPrice)
    => market.check.profitZero

\* C40: after any sequence of subscribe, unsubscribe and removeClient calls
\* a client is among the subscribers of an address exactly when the address
\* is among the subscriptions of the client, the tracked addresses are the
\* addresses with a subscriber, and neither map holds an empty set.
C40_MapsMirrorEachOther ==
  LET m == subs.manager
  IN /\ \A c \in SubClients, a \in SubAddresses :
          (a \in DOMAIN m.addressSubscriptions /\ c \in m.addressSubscriptions[a])
            <=> (c \in DOMAIN m.clientSubscriptions
                   /\ SeqHas(m.clientSubscriptions[c], a))
     /\ m.trackedAddresses = {a \in SubAddresses : SubscriberCount(m, a) > 0}
     /\ \A a \in DOMAIN m.addressSubscriptions : m.addressSubscriptions[a] # {}
     /\ \A c \in DOMAIN m.clientSubscriptions : m.clientSubscriptions[c] # <<>>

\* C40 (witness): a client following both addresses was removed while the
\* other client keeps following one of them.
C40_ClientRemovedOtherStays ==
  /\ subs.op = "removeClient" /\ subs.clientId = "c1"
  /\ subs.before = [a \in SubAddresses |-> IF a = "A" THEN 2 ELSE 1]
  /\ DOMAIN subs.manager.clientSubscriptions = {"c2"}
  /\ subs.manager.trackedAddresses = {"A"}

\* C37: every failed connection counts as one reconnect attempt and leaves
\* one timer pending, so reconnectAttempts never exceeds the reconnects the
\* timer has made since the last successful connect plus the pending one.
C37_AttemptsCountFailures ==
  client.reconnectAttempts <= client.made + 1

\* C37 (case): one stream failed while connect() awaited it, no reconnect
\* has been made, a timer is pending, and two attempts are counted.
C37_OneFailureCountedTwice ==
  /\ StreamCount = 1 /\ streams[1].errored /\ ~streams[1].cancelled
  /\ client.made = 0 /\ client.timer
  /\ client.reconnectAttempts = 2

\* C32: for every byte buffer measureTransactionSize returns 0 or a length
\* that does not exceed the length of the buffer.
C32_SizeWithinBuffer ==
  measure.done => (measure.size = 0 \/ measure.size <= Len(measure.buffer))

\* C32 (case): a buffer that ends inside the data of its last instruction
\* has been measured.
C32_CutInsideInstructionData ==
  /\ measure.done
  /\ \E n \in 1 .. 4 :
        measure.buffer = SubSeq(WireLegacy(<<1>> \o WireInstruction(5)), 1,
                                Len(WireLegacy(<<1>> \o WireInstruction(5))) - n)

\* C32 (part that holds): a whole wire form, alone or followed by the first
\* bytes of the next transaction, measures its own length.
C32_WholeTransactionMeasured ==
  measure.done =>
    \A w \in WireTransactions, n \in 0 .. MaxTrailing :
      measure.buffer = w \o SubSeq(<<1, 0>>, 1, n) => measure.size = Len(w)

\* C33: a step in which a copy attempt is skipped or fails leaves the
\* position ledger as it was; the ledger changes only in the step that
\* reports copy_complete, and only once for the attempt.
C33_LedgerOnlyOnSuccess ==
  [][/\ \A p \in Procs :
          (/\ events'[p] # events[p]
           /\ events'[p][Len(events'[p])] \in {"copy_skipped", "copy_failed"})
            => positions' = positions
     /\ positions' # positions =>
          \E p \in Procs :
             /\ events'[p] = Append(events[p], "copy_complete")
             /\ recorded[p].op = "none" /\ recorded'[p].op # "none"]_vars

\* C33 (witness): of two copies of buys of one mint one failed and one
\* completed, and the ledger holds the one buy.
C33_FailedNextToCompleted ==
  \E p, q \in Procs :
     /\ p # q /\ trade[p].tokenMint = trade[q].tokenMint
     /\ events[p] = <<"copy_initiated", "copy_failed">> /\ recorded[p].op = "none"
     /\ events[q] = <<"copy_initiated", "copy_complete">> /\ recorded[q].op = "buy"
     /\ positions[trade[q].tokenMint].buyCount = 1

\* C34: the in-flight mark is removed on every terminal path: a signature
\* in pendingCopies is the signature of an invocation that is executing its
\* copy, so the set is empty whenever no copy is executing.
C34_MarkOnlyWhileExecuting ==
  pendingCopies \subseteq {trade[p].signature : p \in {q \in Procs : pc[q] \in InFlightPc}}

\* C34 (witness): two invocations for one signature both marked it; one
\* has failed and removed the mark while the other is still executing.
C34_FailedCopyUnmarked ==
  \E p, q \in Procs :
     /\ p # q /\ trade[p].signature = trade[q].signature
     /\ events[p] = <<"copy_initiated", "copy_failed">>
     /\ pc[q] \in InFlightPc
     /\ pendingCopies = {}

\* C35: for each original signature the engine starts at most one copy: of
\* two invocations for one signature at most one reaches copy_initiated.
C35_OneCopyPerSignature ==
  \A p \in Procs : \A q \in Procs \ {p} :
    (/\ trade[p].signature = trade[q].signature
     /\ pc[p] # "idle" /\ Len(events[p]) > 0 /\ events[p][1] = "copy_initiated")
      => ~(pc[q] # "idle" /\ Len(events[q]) > 0 /\ events[q][1] = "copy_initiated")

\* C35 (case): a trade event arrives for a signature whose copy has
\* completed, no invocation for it being in progress, and is copied again.
C35_CopiedAgainAfterCompletion ==
  \E p \in Procs : \E q \in Procs \ {p} :
     /\ trade[p].signature = trade[q].signature
     /\ ~dupAtInvoke[p] /\ ~dupAtInvoke[q]
     /\ events[p] = <<"copy_initiated", "copy_complete">>
     /\ Len(events[q]) > 0 /\ events[q][1] = "copy_initiated"

\* C35 (part that holds): an invocation that finds the signature marked
\* in-flight is skipped and starts no copy.
C35_MarkedSignatureSkipped ==
  \A p \in Procs :
    skipReason[p] = "already_copying" => events[p] = <<"copy_skipped">>

\* C36: exit state is tracked per position: in the step that opens a
\* position on a mint, the mint has no exit state of an earlier position
\* (no hit take-profit targets, no high-water mark), so the first check of
\* the new position creates it.
C36_NewPositionFreshExitState ==
  [][\A m \in Mints :
       (~positions[m].open /\ positions'[m].open) => ~exitStates'[m].present]_vars

\* C36 (case): the position of a mint was closed and a new one opened,
\* which has no sell yet while take-profit targets are marked hit.
C36_ReopenedWithHitTargets ==
  \E m \in Mints :
     /\ positions[m].open /\ positions[m].sellCount = 0
     /\ bought[m] > positions[m].amount
     /\ exitStates[m].present /\ exitStates[m].tpHit # {}

\* The step starts a lookup-table fetch of analysis a.
FetchStarts(a) ==
  /\ analysis'[a].pc = "fetchTable"
  /\ analysis[a].pc # "fetchTable" \/ analysis'[a].li # analysis[a].li

\* C31: any two lookup-table fetches, of one analysis or of analyses running
\* at the same time, start at least 500 ms apart: a fetch starts 500 ms or
\* more after the start of the fetch before it.
C31_FetchesSpaced ==
  [][\A a \in Analyses : FetchStarts(a) => now - lastRpcCall >= RPC_MIN_INTERVAL]_vars

\* C31 (case): two analyses that waited for the rate limit at the same
\* time are both fetching, and a fetch was started at the present time.
C31_BothWokeTogether ==
  \E a, b \in Analyses :
     /\ a # b
     /\ analysis[a].pc = "fetchTable" /\ analysis[b].pc = "fetchTable"
     /\ analysis[a].wakeAt = analysis[b].wakeAt /\ analysis[a].wakeAt > 0
     /\ lastRpcCall = now

\* The key vector under full resolution, one slot per index of a lookup
\* ("" for an index the table has no address at).
SlotKeys(addresses, indexes) ==
  [k \in 1 .. Len(indexes) |->
     IF indexes[k] \in DOMAIN addresses THEN addresses[indexes[k]] ELSE ""]
RECURSIVE ReferenceLookupKeys(_, _)
ReferenceLookupKeys(lookups, i) ==
  IF i > Len(lookups) THEN <<>>
  ELSE SlotKeys(TableAddresses[lookups[i].accountKey], lookups[i].writableIndexes)
       \o SlotKeys(TableAddresses[lookups[i].accountKey], lookups[i].readonlyIndexes)
       \o ReferenceLookupKeys(lookups, i + 1)
ReferenceKeys(tx) == tx.accountKeys \o ReferenceLookupKeys(tx.lookups, 1)

\* The aggregator of one DFlow swap instruction with the given program
\* index, read against a key vector.
ClassifiedAt(tx, keys, programIdIndex) ==
  identifyAggregatorFromInstructions(
    getInstructions([tx EXCEPT !.instructions =
                       <<[programIdIndex |-> programIdIndex, data |-> DFlowSwapData]>>],
                    keys))

\* C38: in the key vector of a finished resolution, partial or not, every
\* index an instruction can carry holds the key it holds under full
\* resolution, or no key.
C38_IndexesKeepTheirKeys ==
  \A a \in Analyses :
    (analysis[a].pc \in {"parse", "done"} /\ analysis[a].tx.isVersioned)
      => \A i \in DOMAIN analysis[a].fullKeys :
            i \in DOMAIN ReferenceKeys(analysis[a].tx)
              /\ analysis[a].fullKeys[i] = ReferenceKeys(analysis[a].tx)[i]

\* C38 (case): the fetch of the first lookup's table failed, and a swap
\* instruction whose program index holds another key under full resolution
\* is classified as DFlow against the partial vector.
C38_ShiftedProgramIndex ==
  \E a \in Analyses : \E i \in DOMAIN analysis[a].fullKeys :
     /\ analysis[a].pc \in {"parse", "done"} /\ analysis[a].tx.isVersioned
     /\ Len(analysis[a].fullKeys) < Len(ReferenceKeys(analysis[a].tx))
     /\ ClassifiedAt(analysis[a].tx, analysis[a].fullKeys, i) = "dflow"
     /\ ClassifiedAt(analysis[a].tx, ReferenceKeys(analysis[a].tx), i) = "unknown"

\* C38 (part that holds): the indexes of the static keys hold the same keys
\* in every resolution.
C38_StaticIndexesKeepTheirKeys ==
  \A a \in Analyses :
    (analysis[a].pc \in {"parse", "done"} /\ analysis[a].tx.isVersioned)
      => \A i \in DOMAIN analysis[a].tx.accountKeys :
            analysis[a].fullKeys[i] = analysis[a].tx.accountKeys[i]

\* C39: once registered, every configured target wallet stays among the
\* tracked users, and a transaction one of whose account keys is a target
\* wallet is analysed, whatever WebSocket clients subscribe to or
\* unsubscribe from, and without any subscription.
C39_TargetsStayTracked ==
  gate.started =>
    /\ gate.targetWallets \subseteq trackedUsers
    /\ (/\ gate.tx.checked
         /\ \E i \in DOMAIN gate.tx.accountKeys :
               gate.tx.accountKeys[i] \in gate.targetWallets)
          => gate.tx.analysed

\* C39 (case): a client subscribed to a target wallet's address and then
\* unsubscribed from it as its last subscriber.
C39_TargetUnsubscribed ==
  /\ gate.started
  /\ subs.op = "unsubscribe" /\ subs.address \in gate.targetWallets
  /\ subs.before[subs.address] = 1
  /\ subs.manager.emitted = <<(<<"ADDRESS_REMOVED", subs.address>>)>>

\* C39 (part that holds): while a client is subscribed to a target wallet's
\* address the wallet is tracked and its transactions are analysed.
C39_TrackedWhileSubscribed ==
  \A w \in gate.targetWallets :
    (gate.started /\ w \in subs.manager.trackedAddresses) => w \in trackedUsers

===========================================================================
